---------------------------- MODULE Spec2Model ----------------------------
(***************************************************************************)
(* RelaySMS Gateway Server: the payload decoding and reassembly pipeline.  *)
(*   src/src/payload_parser.py   header codec and payload classification   *)
(*   src/src/segment_cache.py    the segment store (table message_segments)*)
(*   src/src/payload_service.py  decode_and_publish, the orchestrator      *)
(* Texts are sequences of one-character strings, bytes are 0..255.         *)
(***************************************************************************)
EXTENDS Integers, Sequences, FiniteSets, Bags, TLC

(***************************************************************************)
(* Text helpers                                                            *)
(***************************************************************************)

\* Python slice s[a:b] with 0 <= a <= b (b is clipped to the length).
Slice(s, a, b) == SubSeq(s, a + 1, IF b < Len(s) THEN b ELSE Len(s))

\* Python slice s[a:].
SliceFrom(s, a) == SubSeq(s, a + 1, Len(s))

HexDigits ==
    <<"0", "1", "2", "3", "4", "5", "6", "7", "8", "9", "a", "b", "c", "d", "e", "f">>

HexUpper ==
    <<"0", "1", "2", "3", "4", "5", "6", "7", "8", "9", "A", "B", "C", "D", "E", "F">>

IsHexChar(c) == \E i \in 1..16 : HexDigits[i] = c \/ HexUpper[i] = c

HexVal(c) == (CHOOSE i \in 1..16 : HexDigits[i] = c \/ HexUpper[i] = c) - 1

IsSpace(c) == c = " "

\* bytes.fromhex: ASCII whitespace is skipped between byte pairs, every pair
\* must be two hex digits.  [ok |-> FALSE] stands for ValueError.
RECURSIVE FromHexAt(_, _, _)
FromHexAt(s, i, out) ==
    IF i > Len(s) THEN [ok |-> TRUE, val |-> out]
    ELSE IF IsSpace(s[i]) THEN FromHexAt(s, i + 1, out)
    ELSE IF i + 1 > Len(s) THEN [ok |-> FALSE, val |-> <<>>]
    ELSE IF IsHexChar(s[i]) /\ IsHexChar(s[i + 1])
         THEN FromHexAt(s, i + 2, Append(out, HexVal(s[i]) * 16 + HexVal(s[i + 1])))
         ELSE [ok |-> FALSE, val |-> <<>>]

FromHex(s) == FromHexAt(s, 1, <<>>)

B64Alphabet ==
    <<"A", "B", "C", "D", "E", "F", "G", "H", "I", "J", "K", "L", "M",
      "N", "O", "P", "Q", "R", "S", "T", "U", "V", "W", "X", "Y", "Z",
      "a", "b", "c", "d", "e", "f", "g", "h", "i", "j", "k", "l", "m",
      "n", "o", "p", "q", "r", "s", "t", "u", "v", "w", "x", "y", "z",
      "0", "1", "2", "3", "4", "5", "6", "7", "8", "9", "+", "/">>

IsB64Char(c) == \E i \in 1..64 : B64Alphabet[i] = c

B64Val(c) == (CHOOSE i \in 1..64 : B64Alphabet[i] = c) - 1

\* base64.b64decode(text) in its default, non-validating mode: characters
\* outside the alphabet are discarded, a complete pad sequence ends the
\* input, and leftover sextets are "Incorrect padding" ([ok |-> FALSE],
\* binascii.Error, a ValueError).
RECURSIVE B64DecodeAt(_, _, _, _, _, _)
B64DecodeAt(s, i, quad, left, pads, out) ==
    IF i > Len(s)
    THEN [ok |-> quad = 0, val |-> IF quad = 0 THEN out ELSE <<>>]
    ELSE IF s[i] = "="
    THEN IF quad >= 2 /\ quad + pads + 1 >= 4
         THEN [ok |-> TRUE, val |-> out]
         ELSE B64DecodeAt(s, i + 1, quad, left,
                          IF quad >= 2 THEN pads + 1 ELSE pads, out)
    ELSE IF ~IsB64Char(s[i])
    THEN B64DecodeAt(s, i + 1, quad, left, pads, out)
    ELSE LET v == B64Val(s[i]) IN
         CASE quad = 0 -> B64DecodeAt(s, i + 1, 1, v, 0, out)
           [] quad = 1 -> B64DecodeAt(s, i + 1, 2, v % 16, 0,
                                      Append(out, left * 4 + (v \div 16)))
           [] quad = 2 -> B64DecodeAt(s, i + 1, 3, v % 4, 0,
                                      Append(out, left * 16 + (v \div 4)))
           [] quad = 3 -> B64DecodeAt(s, i + 1, 0, 0, 0,
                                      Append(out, left * 64 + v))

\* Mutant: a character outside the alphabet is an error (validate=True).
B64DecodeStrict(s) ==
    IF \E i \in 1..Len(s) : ~IsB64Char(s[i]) /\ s[i] # "="
    THEN [ok |-> FALSE, val |-> <<>>]
    ELSE B64DecodeAt(s, 1, 0, 0, 0, <<>>)

b64decode(s) == B64DecodeAt(s, 1, 0, 0, 0, <<>>)

\* base64.b64encode(bytes): three bytes to four characters, "=" padded.
RECURSIVE B64EncodeAt(_, _)
B64EncodeAt(b, i) ==
    IF i > Len(b) THEN <<>>
    ELSE IF i = Len(b)
    THEN <<B64Alphabet[(b[i] \div 4) + 1], B64Alphabet[(b[i] % 4) * 16 + 1], "=", "=">>
    ELSE IF i + 1 = Len(b)
    THEN <<B64Alphabet[(b[i] \div 4) + 1],
           B64Alphabet[(b[i] % 4) * 16 + (b[i + 1] \div 16) + 1],
           B64Alphabet[(b[i + 1] % 16) * 4 + 1], "=">>
    ELSE <<B64Alphabet[(b[i] \div 4) + 1],
           B64Alphabet[(b[i] % 4) * 16 + (b[i + 1] \div 16) + 1],
           B64Alphabet[(b[i + 1] % 16) * 4 + (b[i + 2] \div 64) + 1],
           B64Alphabet[(b[i + 2] % 64) + 1]>> \o B64EncodeAt(b, i + 3)

b64encode(b) == B64EncodeAt(b, 1)

(***************************************************************************)
(* payload_parser.py                                                       *)
(***************************************************************************)

BRIDGE_REQUEST_IDENTIFIER == 0

MAX_SEGMENTS == 15

IT_PREFIX == 4

\* The value a failed parse returns (Python None).
None == [none |-> TRUE]

\* PayloadParser.is_bridge_payload: the text decodes from base64 to at least
\* one byte and the first byte is the bridge marker; a decode error is False.
is_bridge_payload(payload) ==
    LET d == b64decode(payload) IN
    d.ok /\ Len(d.val) > 0 /\ d.val[1] = BRIDGE_REQUEST_IDENTIFIER

\* Mutant: the prefix byte is not compared with the marker.
IsItPayloadAnyPrefix(payload) ==
    IF Len(payload) < 6 THEN FALSE
    ELSE LET prefix == FromHex(Slice(payload, 0, 2)) IN
         IF ~prefix.ok \/ Len(prefix.val) = 0 THEN FALSE
         ELSE LET short == FromHex(Slice(payload, 2, 6))
                  long == FromHex(Slice(payload, 2, 14))
              IN  \/ short.ok /\ Len(short.val) = 2
                  \/ Len(payload) >= 14 /\ long.ok /\ Len(long.val) = 6

\* PayloadParser.is_it_payload: "04" followed by 4 (short) or 12 (long) hex
\* characters.  Any ValueError or IndexError on the way is False.
is_it_payload(payload) ==
    IF Len(payload) < 6 THEN FALSE
    ELSE LET prefix == FromHex(Slice(payload, 0, 2)) IN
         IF ~prefix.ok \/ Len(prefix.val) = 0 THEN FALSE
         ELSE IF prefix.val[1] # IT_PREFIX THEN FALSE
         ELSE LET short == FromHex(Slice(payload, 2, 6))
                  long == FromHex(Slice(payload, 2, 14))
              IN  \/ short.ok /\ Len(short.val) = 2
                  \/ Len(payload) >= 14 /\ long.ok /\ Len(long.val) = 6

\* Mutant: the two length bytes are read little endian.
UnpackLE16(hi, lo) == lo * 256 + hi

\* struct.unpack(">H", two bytes)
UnpackBE16(hi, lo) == hi * 256 + lo

\* Mutant: segment_number and total_segments are taken as they come.
ParseMetadataUnchecked(metadata_hex) ==
    IF Len(metadata_hex) \notin {4, 12} THEN None
    ELSE LET mb == FromHex(metadata_hex) IN
         IF ~mb.ok THEN None
         ELSE IF Len(mb.val) < 2 THEN [raised |-> "IndexError"]
         ELSE [session_id |-> mb.val[1],
               segment_number |-> (mb.val[2] \div 16) % 16,
               total_segments |-> mb.val[2] % 16,
               image_length |-> IF Len(mb.val) = 6
                                THEN UnpackBE16(mb.val[3], mb.val[4]) ELSE 0,
               text_length |-> IF Len(mb.val) = 6
                               THEN UnpackBE16(mb.val[5], mb.val[6]) ELSE 0]

\* PayloadParser.parse_image_text_metadata, on the 4 or 12 header characters
\* that follow the prefix: session_id(1) | segment_number:4 total_segments:4
\* [ | image_length(2, big endian) | text_length(2, big endian) ].
\* The callers hand it text that decodes to 2 or 6 bytes; text that decodes
\* to fewer than 2 (bytes.fromhex skips white space) ends in an IndexError
\* that the function does not catch.
parse_image_text_metadata(metadata_hex) ==
    IF Len(metadata_hex) \notin {4, 12} THEN None
    ELSE LET mb == FromHex(metadata_hex) IN
         IF ~mb.ok THEN None
         ELSE IF Len(mb.val) < 2 THEN [raised |-> "IndexError"]
         ELSE LET session_id == mb.val[1]
                  seg_info == mb.val[2]
                  segment_number == (seg_info \div 16) % 16
                  total_segments == seg_info % 16
              IN  IF segment_number >= MAX_SEGMENTS \/ total_segments > MAX_SEGMENTS
                  THEN None
                  ELSE IF total_segments = 0 THEN None
                  ELSE IF segment_number >= total_segments THEN None
                  ELSE [session_id |-> session_id,
                        segment_number |-> segment_number,
                        total_segments |-> total_segments,
                        image_length |-> IF Len(mb.val) = 6
                                         THEN UnpackBE16(mb.val[3], mb.val[4]) ELSE 0,
                        text_length |-> IF Len(mb.val) = 6
                                        THEN UnpackBE16(mb.val[5], mb.val[6]) ELSE 0]

\* PayloadParser.parse_image_text_payload: the long layout is tried first and
\* taken when characters 2..13 are six hex bytes and something follows them;
\* otherwise the short layout.  Returns [metadata, content] or None.
parse_image_text_payload(payload) ==
    IF ~is_it_payload(payload) THEN None
    ELSE LET long == FromHex(Slice(payload, 2, 14))
             short == FromHex(Slice(payload, 2, 6))
             useLong == /\ Len(payload) >= 14
                        /\ long.ok /\ Len(long.val) = 6
                        /\ Len(SliceFrom(payload, 14)) > 0
             useShort == /\ ~useLong
                         /\ Len(payload) >= 6
                         /\ short.ok /\ Len(short.val) = 2
                         /\ Len(SliceFrom(payload, 6)) > 0
         IN  IF ~useLong /\ ~useShort THEN None
             ELSE LET metadata_hex == IF useLong THEN Slice(payload, 2, 14)
                                      ELSE Slice(payload, 2, 6)
                      content == IF useLong THEN SliceFrom(payload, 14)
                                 ELSE SliceFrom(payload, 6)
                      metadata == parse_image_text_metadata(metadata_hex)
                  IN  IF metadata = None THEN None
                      ELSE [metadata |-> metadata, content |-> content]

(***************************************************************************)
(* payload_service.py: the pure helpers                                    *)
(***************************************************************************)

TIMESTAMP_DIVISOR == 1000

\* A text value of an outcome; None is the absent side.
Msg(t) == [text |-> t]

\* The (message, error) pair decode_and_publish returns, and an uncaught
\* exception leaving it.
Outcome(m, e) == [message |-> m, error |-> e]

Raised(exc) == [raised |-> exc]

\* A timestamp of a payload is an integer, a text that int() refuses, or
\* absent (None).
IntTs(n) == [int |-> n]

TextTs(t) == [str |-> t]

\* Python "not timestamp": absent, 0 or the empty text
FalsyTs(v) == v = None \/ v = IntTs(0) \/ v = TextTs(<<>>)

\* In a payload record an absent field is the empty text for "text", "" for
\* the two sender fields and None for the timestamps: all of them falsy.
\* Mutant: the sender is looked at before the text.
ValidateSenderFirst(payload) ==
    LET sender_id == IF payload.MSISDN # "" THEN payload.MSISDN ELSE payload.address IN
    IF sender_id = "" THEN Msg("Missing required field: address or MSISDN")
    ELSE IF payload.text = <<>> THEN Msg("Missing required field: text")
    ELSE IF FalsyTs(payload.date) THEN Msg("Missing required field: date")
    ELSE IF FalsyTs(payload.date_sent) THEN Msg("Missing required field: date_sent")
    ELSE None

\* _validate_payload_fields
_validate_payload_fields(payload) ==
    LET sender_id == IF payload.MSISDN # "" THEN payload.MSISDN ELSE payload.address IN
    IF payload.text = <<>> THEN Msg("Missing required field: text")
    ELSE IF sender_id = "" THEN Msg("Missing required field: address or MSISDN")
    ELSE IF FalsyTs(payload.date) THEN Msg("Missing required field: date")
    ELSE IF FalsyTs(payload.date_sent) THEN Msg("Missing required field: date_sent")
    ELSE None

\* payload.get("MSISDN") or payload["address"]
SenderOf(payload) ==
    IF payload.MSISDN # "" THEN payload.MSISDN ELSE payload.address

\* str(n) of a natural number: its decimal digits
RECURSIVE DecimalDigits(_)
DecimalDigits(n) ==
    IF n < 10 THEN <<HexDigits[n + 1]>>
    ELSE DecimalDigits(n \div 10) \o <<HexDigits[(n % 10) + 1]>>

\* str(n) of an integer
StrOfInt(n) == IF n < 0 THEN <<"-">> \o DecimalDigits(-n) ELSE DecimalDigits(n)

\* Mutant: the milliseconds are handed on without the division.
ConvertWithoutDivision(timestamp) ==
    IF timestamp = None THEN None
    ELSE IF "int" \in DOMAIN timestamp THEN TextTs(StrOfInt(timestamp.int))
    ELSE TextTs(timestamp.str)

\* _convert_timestamp: None stays None; str(int(timestamp) // 1000), the
\* floor division of Python; a value int() refuses comes back as str(value).
_convert_timestamp(timestamp) ==
    IF timestamp = None THEN None
    ELSE IF "int" \in DOMAIN timestamp
    THEN TextTs(StrOfInt(timestamp.int \div TIMESTAMP_DIVISOR))
    ELSE TextTs(timestamp.str)

\* Mutant: the bridge marker is not looked for.
DetectSkipsBridge(content) ==
    IF is_it_payload(content) THEN "image-text" ELSE "platform"

\* detect_payload_type
detect_payload_type(content) ==
    IF is_it_payload(content) THEN "image-text"
    ELSE IF is_bridge_payload(content) THEN "bridge"
    ELSE "platform"

\* Mutant: the policy forgets the origin and rejects bridge payloads of
\* every transport.
BridgeRestrictedAnyOrigin(is_bridge_request, request_origin, restricted) ==
    is_bridge_request /\ restricted

\* The bridge-over-HTTP policy test of decode_and_publish
BridgeRestricted(is_bridge_request, request_origin, restricted) ==
    is_bridge_request /\ request_origin = "http" /\ restricted

\* What a transport hands in is a record (a dict), a value that is no record
\* ([nonrecord |-> its type]), or a JSON text ([json |-> what json.loads makes
\* of it]: a record, a value that is no record, or [invalid |-> TRUE] for
\* text json.loads refuses).
IsJsonText(payload) == "json" \in DOMAIN payload

\* payload after the isinstance(payload, str) / json.loads step
Loaded(payload) == IF IsJsonText(payload) THEN payload.json ELSE payload

\* decode_and_publish from its entry up to its first storage or publisher
\* call: json.loads, validation, classification, and then either the header
\* parse of _handle_image_text_payload or the base64 decode and the
\* bridge-over-HTTP policy.  "return" carries the outcome of an invocation
\* that ends here; payload.get on a value that is no record raises.
Dispatch(raw, request_origin, restricted) ==
    LET payload == Loaded(raw) IN
    IF "invalid" \in DOMAIN payload
    THEN [next |-> "return", outcome |-> Outcome(None, Msg("Invalid JSON format"))]
    ELSE IF "nonrecord" \in DOMAIN payload
    THEN [next |-> "return", outcome |-> Raised("AttributeError")]
    ELSE
    LET validation_error == _validate_payload_fields(payload) IN
    IF validation_error # None
    THEN [next |-> "return", outcome |-> Outcome(None, validation_error)]
    ELSE LET payload_type == detect_payload_type(payload.text) IN
    IF payload_type = "image-text"
    THEN LET parse_result == parse_image_text_payload(payload.text) IN
         IF parse_result = None
         THEN [next |-> "return",
               outcome |-> Outcome(None, Msg("Failed to parse image-text payload"))]
         ELSE [next |-> "store_lookup", parsed |-> parse_result]
    ELSE LET decoded == b64decode(payload.text) IN
    IF ~decoded.ok
    THEN [next |-> "return",
          outcome |-> Outcome(None, Msg("Invalid Base64-encoded payload"))]
    ELSE IF Len(decoded.val) = 0
    THEN [next |-> "return", outcome |-> Outcome(None, Msg("Decoded payload is empty"))]
    ELSE IF BridgeRestricted(payload_type = "bridge", request_origin, restricted)
    THEN [next |-> "return",
          outcome |-> Outcome(None, Msg("Bridge payloads over HTTP are restricted."))]
    ELSE [next |-> IF payload_type = "bridge" THEN "publish_bridge" ELSE "publish_platform"]

\* Mutant: the marker byte is sent along.
BridgeCallKeepsMarker(payload) ==
    [publisher |-> "bridge",
     content |-> b64encode(b64decode(payload.text).val),
     sender |-> SenderOf(payload),
     image_length |-> payload.image_length]

\* The arguments of the publisher call of an invocation that reached it.
BridgeCall(payload) ==
    [publisher |-> "bridge",
     content |-> b64encode(Tail(b64decode(payload.text).val)),
     sender |-> SenderOf(payload),
     image_length |-> payload.image_length]

PlatformCall(payload) ==
    [publisher |-> "platform",
     content |-> payload.text,
     sender |-> SenderOf(payload),
     date |-> _convert_timestamp(payload.date),
     date_sent |-> _convert_timestamp(payload.date_sent)]

\* What a publisher call can come back with: a response (success flag,
\* message, publisher_response) or a gRPC error (details).
PublisherReplies ==
    { [rpc_error |-> FALSE, success |-> TRUE,
       message |-> Msg("Bridge published"), publisher_response |-> Msg("Published")],
      [rpc_error |-> FALSE, success |-> FALSE,
       message |-> Msg("Publishing failed"), publisher_response |-> Msg("")],
      [rpc_error |-> TRUE, details |-> Msg("Service unavailable")] }

\* decode_and_publish after the publisher call returned.
PublishOutcome(reply, is_bridge_request) ==
    IF reply.rpc_error THEN Outcome(None, reply.details)
    ELSE IF ~reply.success THEN Outcome(None, reply.message)
    ELSE Outcome(IF is_bridge_request THEN reply.message ELSE reply.publisher_response,
                 None)

(***************************************************************************)
(* segment_cache.py over the table message_segments (models.py).  The      *)
(* table is the sequence of its rows in insertion order.                   *)
(***************************************************************************)

Row(session_id, sender_id, metadata, content) ==
    [session_id |-> session_id,
     sender_id |-> sender_id,
     segment_number |-> metadata.segment_number,
     total_segments |-> metadata.total_segments,
     image_length |-> metadata.image_length,
     text_length |-> metadata.text_length,
     content |-> content]

\* Mutant: the query selects on session_id alone.
SessionRowsAnySender(table, session_id, sender_id) ==
    LET InGroup(r) == r.session_id = session_id
    IN  SelectSeq(table, InGroup)

\* The rows of MessageSegments.select().where(session_id, sender_id)
SessionRows(table, session_id, sender_id) ==
    LET InGroup(r) == r.session_id = session_id /\ r.sender_id = sender_id
    IN  SelectSeq(table, InGroup)

\* MessageSegments.get_or_none(session, sender, segment_number) finds a row.
HasSegment(table, session_id, sender_id, segment_number) ==
    \E i \in 1..Len(table) :
        /\ table[i].session_id = session_id
        /\ table[i].sender_id = sender_id
        /\ table[i].segment_number = segment_number

\* Mutant: the table has no unique index, every insert is accepted.
UniqueIndexMissing(table, row) == TRUE

\* The unique index (session_id, sender_id, segment_number) of
\* MessageSegments: an insert that would repeat a key fails (IntegrityError).
UniqueIndexAllows(table, row) ==
    ~HasSegment(table, row.session_id, row.sender_id, row.segment_number)

\* ORDER BY segment_number (a stable insertion sort).
RECURSIVE InsertBySegment(_, _)
InsertBySegment(sorted, r) ==
    IF sorted = <<>> THEN <<r>>
    ELSE IF r.segment_number < Head(sorted).segment_number THEN <<r>> \o sorted
    ELSE <<Head(sorted)>> \o InsertBySegment(Tail(sorted), r)

RECURSIVE OrderBySegment(_)
OrderBySegment(rows) ==
    IF rows = <<>> THEN <<>>
    ELSE InsertBySegment(OrderBySegment(SubSeq(rows, 1, Len(rows) - 1)), rows[Len(rows)])

\* Mutant: the query has no ORDER BY, rows come back in insertion order.
GetSegmentsUnordered(table, session_id, sender_id) ==
    SessionRows(table, session_id, sender_id)

\* SegmentCache.get_segments
get_segments(table, session_id, sender_id) ==
    OrderBySegment(SessionRows(table, session_id, sender_id))

\* Mutant: the delete keeps the group's zero-numbered row.
DeleteSessionKeepsFirst(table, session_id, sender_id) ==
    LET Kept(r) == ~(r.session_id = session_id /\ r.sender_id = sender_id)
                       \/ r.segment_number = 0
    IN  SelectSeq(table, Kept)

\* Mutant: only the row of segment 0 is deleted.
DeleteSessionFirstOnly(table, session_id, sender_id) ==
    LET Kept(r) == ~(r.session_id = session_id /\ r.sender_id = sender_id)
                       \/ r.segment_number # 0
    IN  SelectSeq(table, Kept)

\* SegmentCache.delete_session: the table without the group's rows.
delete_session(table, session_id, sender_id) ==
    LET Others(r) == ~(r.session_id = session_id /\ r.sender_id = sender_id)
    IN  SelectSeq(table, Others)

\* What delete_session returns: the number of rows its DELETE matched.
deleted_count(table, session_id, sender_id) ==
    LET Matched(r) == r.session_id = session_id /\ r.sender_id = sender_id
    IN  Len(SelectSeq(table, Matched))

\* Mutant: the count is compared with the last segment index, not the total.
IsSessionCompleteOffByOne(received_count, first_segment) ==
    IF received_count = 0 \/ first_segment = None
    THEN [is_complete |-> FALSE, received |-> 0, total |-> 0]
    ELSE [is_complete |-> received_count = first_segment.total_segments - 1,
          received |-> received_count,
          total |-> first_segment.total_segments]

\* Mutant: the session counts as complete once more than half has arrived.
IsSessionCompleteEarly(received_count, first_segment) ==
    IF received_count = 0 \/ first_segment = None
    THEN [is_complete |-> FALSE, received |-> 0, total |-> 0]
    ELSE [is_complete |-> 2 * received_count >= first_segment.total_segments,
          received |-> received_count,
          total |-> first_segment.total_segments]

\* SegmentCache.is_session_complete after its two queries: the count of the
\* group's rows and its lowest-numbered row (None when the second query
\* finds nothing: the AttributeError is caught and reported as incomplete).
is_session_complete(received_count, first_segment) ==
    IF received_count = 0 \/ first_segment = None
    THEN [is_complete |-> FALSE, received |-> 0, total |-> 0]
    ELSE [is_complete |-> received_count = first_segment.total_segments,
          received |-> received_count,
          total |-> first_segment.total_segments]

\* segments.count()
CountSegments(table, session_id, sender_id) ==
    Len(SessionRows(table, session_id, sender_id))

\* segments.first() of the query ordered by segment_number
FirstSegment(table, session_id, sender_id) ==
    LET segments == get_segments(table, session_id, sender_id) IN
    IF segments = <<>> THEN None ELSE segments[1]

\* SegmentCache.is_session_complete called with nothing running in between
SessionComplete(table, session_id, sender_id) ==
    is_session_complete(CountSegments(table, session_id, sender_id),
                        FirstSegment(table, session_id, sender_id))

RECURSIVE JoinContent(_)
JoinContent(rows) ==
    IF rows = <<>> THEN <<>> ELSE Head(rows).content \o JoinContent(Tail(rows))

\* Mutant: a session with a missing segment number is not assembled.
AssembleRefusesGaps(table, session_id, sender_id) ==
    LET segments == get_segments(table, session_id, sender_id) IN
    IF segments = <<>> THEN None
    ELSE IF \E i \in 1..Len(segments) : segments[i].segment_number # i - 1
    THEN None
    ELSE [content |-> JoinContent(segments),
          image_length |-> segments[1].image_length]

\* _assemble_complete_payload: None without segments, else the content of the
\* segments joined in ascending segment_number and the first one's
\* image_length.
_assemble_complete_payload(table, session_id, sender_id) ==
    LET segments == get_segments(table, session_id, sender_id) IN
    IF segments = <<>> THEN None
    ELSE LET segments_sorted == OrderBySegment(segments) IN
         [content |-> JoinContent(segments_sorted),
          image_length |-> segments_sorted[1].image_length]

(***************************************************************************)
(* Submissions the transports hand to decode_and_publish                   *)
(***************************************************************************)

Hex2(n) == <<HexDigits[(n \div 16) + 1], HexDigits[(n % 16) + 1]>>

Hex4(n) == Hex2(n \div 256) \o Hex2(n % 256)

\* Short header: "04" session_id segment_number:4|total_segments:4
ITShort(session_id, segment_number, total_segments, content) ==
    <<"0", "4">> \o Hex2(session_id) \o Hex2(segment_number * 16 + total_segments)
        \o content

\* Long header: the short one followed by image_length and text_length
ITLong(session_id, segment_number, total_segments, image_length, text_length, content) ==
    <<"0", "4">> \o Hex2(session_id) \o Hex2(segment_number * 16 + total_segments)
        \o Hex4(image_length) \o Hex4(text_length) \o content

SenderX == "+1234567890"

\* A millisecond timestamp (the tests use 1633024800000; TLC integers are 32 bit)
T0 == 1633024800

Payload(text, sender) ==
    [text |-> text, MSISDN |-> "", address |-> sender,
     date |-> IntTs(T0), date_sent |-> IntTs(T0), image_length |-> 0]

\* decode_and_publish(payload, request_origin) as a transport calls it
Request(payload, origin) == [payload |-> payload, origin |-> origin]

Submission(text, sender, origin) == Request(Payload(text, sender), origin)

Origins == {"http", "smtp", "ftp"}

\* base64 of "ABC" then "ABD" (platform content) and of 00 01 02 (bridge)
PlatformText == <<"Q", "U", "J", "D">>

BridgeText == <<"A", "A", "E", "C">>

\* Session 50: two segments, the first in the long form; its content joins
\* to PlatformText.  Segment 1 also arrives with other content.
Session50 ==
    { ITLong(50, 0, 2, 100, 50, <<"Q", "U">>),
      ITShort(50, 1, 2, <<"J", "D">>),
      ITShort(50, 1, 2, <<"J", "E">>) }

\* Session 42: one long-form segment holding bridge content.
Session42 == { ITLong(42, 0, 1, 50, 30, BridgeText) }

\* Session 7: three segments, joining to base64 of "ABCDEF".
Session7 ==
    { ITLong(7, 0, 3, 100, 50, <<"Q", "U", "J">>),
      ITShort(7, 1, 3, <<"D", "R">>),
      ITShort(7, 2, 3, <<"E", "V", "G">>) }

\* What the single-threaded transport of SpecSeq hands in
SeqInputs ==
    { Submission(t, SenderX, "http") : t \in Session50 \cup Session7 }
    \cup { Submission(t, SenderX, o) : t \in Session42 \cup {BridgeText}, o \in Origins }
    \cup { Submission(PlatformText, SenderX, "http") }

\* What the concurrent transports of Spec hand in
Inputs ==
    { Submission(t, SenderX, "http") : t \in Session50 }
    \cup { Submission(t, SenderX, "smtp") : t \in Session42 }

MaxSubmissions == 3

MaxSeqSubmissions == 4

MaxDepth == 3

Workers == {1, 2}

(***************************************************************************)
(* State                                                                   *)
(***************************************************************************)

VARIABLES
    store,      \* table message_segments: its rows in insertion order
    flag,       \* DISABLE_BRIDGE_PAYLOADS_OVER_HTTP
    pc,         \* where each running decode_and_publish stands
    req,        \* the submission a transport handed in
    payload,    \* payload of the current (possibly re-entered) invocation
    parsed,     \* metadata and content of the current image-text invocation
    received,   \* received_count of the running is_session_complete
    stack,      \* the _handle_image_text_payload frames waiting on a re-entry
    result,     \* the (message, error) pair being returned
    obs,        \* what is_session_complete told the outermost invocation
    calls,      \* publisher calls of the running submission, with the reply
    published,  \* every publisher call so far, with the session it came from
    delivered,  \* every submission handed in so far
    nsub,       \* number of submissions handed in
    source,     \* what each listener did with its last source message
    db          \* the database behind the table: "up", or "down" (queries raise)

vars == <<store, flag, pc, req, payload, parsed, received, stack, result, obs,
          calls, published, delivered, nsub, source, db>>

NoPayload == Payload(<<>>, "")

Init ==
    /\ store = <<>>
    /\ flag \in BOOLEAN
    /\ pc = [w \in Workers |-> "idle"]
    /\ req = [w \in Workers |-> None]
    /\ payload = [w \in Workers |-> NoPayload]
    /\ parsed = [w \in Workers |-> None]
    /\ received = [w \in Workers |-> 0]
    /\ stack = [w \in Workers |-> <<>>]
    /\ result = [w \in Workers |-> None]
    /\ obs = [w \in Workers |-> None]
    /\ calls = [w \in Workers |-> <<>>]
    /\ published = EmptyBag
    /\ delivered = {}
    /\ nsub = 0
    /\ source = [w \in Workers |-> None]
    /\ db = "up"

(***************************************************************************)
(* decode_and_publish, one action per storage query or publisher call      *)
(***************************************************************************)

IsRaised(r) == "raised" \in DOMAIN r

Truthy(v) == v # None /\ v # Msg("")

\* request_origin of a call that passes none
NoOrigin == "None"

\* The origin each listener passes: publish_relaysms_payload passes "http",
\* file_received calls decode_and_publish(content) with no origin.
OriginPassed(transport) == IF transport = "http" THEN "http" ELSE NoOrigin

\* A message arriving at a listener: what the listener hands to
\* decode_and_publish, and the listener it came through.
Arrival(pl, transport) ==
    [payload |-> pl, origin |-> OriginPassed(transport), transport |-> transport]

HasListener(r) == "transport" \in DOMAIN r

\* The handling of the source message was interrupted; it awaits its retry
Interrupted(src) == "interrupted" \in DOMAIN src

\* ftp_server.file_received after decode_and_publish: os.remove(file) in
\* the error branch and after a success; an exception leaves the file.
file_received(r) ==
    IF IsRaised(r) THEN [file |-> "kept", logged |-> "exception"]
    ELSE IF Truthy(r.error)
    THEN [file |-> "removed", logged |-> "error"]
    ELSE [file |-> "removed", logged |-> "publisher_response"]

\* api_v3.publish_relaysms_payload after decode_and_publish: BadRequest on
\* an error, the publisher response otherwise.
publish_relaysms_payload(r) ==
    IF IsRaised(r) THEN [status |-> 500]
    ELSE IF Truthy(r.error)
    THEN [status |-> 400]
    ELSE [status |-> 200]

\* What the listener of a transport did with the message whose handling
\* ended with r: the origin it had passed, the outcome, and whether the
\* source message was acknowledged (file removed, request answered 200).
Listener(transport, origin, r) ==
    [transport |-> transport, origin |-> origin, outcome |-> r,
     acknowledged |-> IF transport = "ftp"
                      THEN file_received(r).file = "removed"
                      ELSE publish_relaysms_payload(r).status = 200]

\* Python truthiness of one side of an outcome
SegmentCachedMsg(r, t, session_id) ==
    [text |-> "Segment received and cached", received |-> r, total |-> t,
     session_id |-> session_id]

\* The session the current image-text invocation of w works on
CurSession(w) == parsed[w].metadata.session_id

CurSender(w) == SenderOf(payload[w])

\* An invocation of decode_and_publish starts for w with the frames stk
\* waiting on it, and runs to its first storage or publisher call.
Begin(w, pl, origin, stk) ==
    LET d == Dispatch(pl, origin, flag) IN
    /\ payload' = [payload EXCEPT ![w] = Loaded(pl)]
    /\ stack' = [stack EXCEPT ![w] = stk]
    /\ parsed' = [parsed EXCEPT ![w] = IF d.next = "store_lookup" THEN d.parsed ELSE None]
    /\ IF d.next = "return"
       THEN /\ result' = [result EXCEPT ![w] = d.outcome]
            /\ pc' = [pc EXCEPT ![w] = IF stk = <<>> THEN "done" ELSE "delete_session"]
       ELSE /\ result' = result
            /\ pc' = [pc EXCEPT ![w] = d.next]

\* The current invocation returns outcome to its caller: the transport, or
\* the frame that re-entered and now goes on to delete its session.
Return(w, outcome) ==
    /\ result' = [result EXCEPT ![w] = outcome]
    /\ pc' = [pc EXCEPT ![w] = IF stack[w] = <<>> THEN "done" ELSE "delete_session"]

\* A transport calls decode_and_publish(payload, request_origin).
Submit(w, sub, limit) ==
    /\ pc[w] = "idle"
    /\ nsub < limit
    /\ req' = [req EXCEPT ![w] = sub]
    /\ delivered' = delivered \cup {sub}
    /\ nsub' = nsub + 1
    /\ Begin(w, sub.payload, sub.origin, <<>>)
    /\ UNCHANGED <<store, flag, source, db, received, obs, calls, published>>

\* Mutant: an existing row is overwritten with the new content (an upsert).
StoreLookupOverwrites(w) ==
    /\ pc[w] = "store_lookup"
    /\ LET exists == HasSegment(store, CurSession(w), CurSender(w),
                                parsed[w].metadata.segment_number)
           Put(r) == IF /\ r.session_id = CurSession(w)
                        /\ r.sender_id = CurSender(w)
                        /\ r.segment_number = parsed[w].metadata.segment_number
                     THEN Row(CurSession(w), CurSender(w), parsed[w].metadata,
                              parsed[w].content)
                     ELSE r
       IN  /\ pc' = [pc EXCEPT ![w] = IF exists THEN "complete_count" ELSE "store_insert"]
           /\ store' = [i \in 1..Len(store) |-> Put(store[i])]
    /\ UNCHANGED <<flag, source, db, req, payload, parsed, received, stack, result, obs,
                   calls, published, delivered, nsub>>

\* store_segment, first half: MessageSegments.get_or_none.  An existing row
\* makes store_segment return True without writing.  Every method of
\* SegmentCache catches the exception of a failing query: store_segment
\* then returns False, get_segments [], is_session_complete (False, 0, 0)
\* and delete_session 0.
StoreLookup(w) ==
    /\ pc[w] = "store_lookup"
    /\ IF db = "down"
       THEN Return(w, Outcome(None, Msg("Failed to store message segment")))
       ELSE /\ pc' = [pc EXCEPT ![w] =
                        IF HasSegment(store, CurSession(w), CurSender(w),
                                      parsed[w].metadata.segment_number)
                        THEN "complete_count" ELSE "store_insert"]
            /\ result' = result
    /\ UNCHANGED <<store, flag, source, db, req, payload, parsed, received, stack, obs,
                   calls, published, delivered, nsub>>

\* Mutant: the answer of a failed MessageSegments.create is not looked at.
StoreInsertIgnoresFailure(w) ==
    /\ pc[w] = "store_insert"
    /\ LET row == Row(CurSession(w), CurSender(w), parsed[w].metadata, parsed[w].content)
       IN  /\ store' = IF db = "up" /\ UniqueIndexAllows(store, row)
                         THEN Append(store, row) ELSE store
           /\ pc' = [pc EXCEPT ![w] = "complete_count"]
           /\ result' = result
    /\ UNCHANGED <<flag, source, db, req, payload, parsed, received, stack, obs,
                   calls, published, delivered, nsub>>

\* store_segment, second half: MessageSegments.create.  The unique index
\* refuses a repeated key; the IntegrityError is caught, store_segment
\* returns False and the invocation ends "Failed to store message segment".
StoreInsert(w) ==
    /\ pc[w] = "store_insert"
    /\ LET row == Row(CurSession(w), CurSender(w), parsed[w].metadata, parsed[w].content)
       IN  IF db = "up" /\ UniqueIndexAllows(store, row)
           THEN /\ store' = Append(store, row)
                /\ pc' = [pc EXCEPT ![w] = "complete_count"]
                /\ result' = result
           ELSE /\ store' = store
                /\ Return(w, Outcome(None, Msg("Failed to store message segment")))
    /\ UNCHANGED <<flag, source, db, req, payload, parsed, received, stack, obs,
                   calls, published, delivered, nsub>>

\* is_session_complete, first query: segments.count().  Zero rows end it
\* with (False, 0, 0).
CompleteCount(w) ==
    /\ pc[w] = "complete_count"
    /\ LET n == IF db = "down" THEN 0
                ELSE CountSegments(store, CurSession(w), CurSender(w))
           c == is_session_complete(n, None)
       IN  /\ received' = [received EXCEPT ![w] = n]
           /\ IF n = 0
              THEN /\ obs' = [obs EXCEPT ![w] = IF stack[w] = <<>> THEN c ELSE @]
                   /\ Return(w, Outcome(SegmentCachedMsg(c.received, c.total,
                                                         CurSession(w)), None))
              ELSE /\ obs' = obs
                   /\ pc' = [pc EXCEPT ![w] = "complete_first"]
                   /\ result' = result
    /\ UNCHANGED <<store, flag, source, db, req, payload, parsed, stack,
                   calls, published, delivered, nsub>>

\* is_session_complete, second query: segments.first(), and the branch of
\* _handle_image_text_payload on its answer.
CompleteFirst(w) ==
    /\ pc[w] = "complete_first"
    /\ LET c == IF db = "down" THEN is_session_complete(0, None)
                ELSE is_session_complete(received[w],
                                         FirstSegment(store, CurSession(w), CurSender(w)))
       IN  /\ obs' = [obs EXCEPT ![w] = IF stack[w] = <<>> THEN c ELSE @]
           /\ IF ~c.is_complete
              THEN Return(w, Outcome(SegmentCachedMsg(c.received, c.total,
                                                      CurSession(w)), None))
              ELSE /\ pc' = [pc EXCEPT ![w] = "assemble"]
                   /\ result' = result
    /\ UNCHANGED <<store, flag, source, db, req, payload, parsed, received, stack,
                   calls, published, delivered, nsub>>

\* Mutant: the re-entry passes no request_origin.
AssembleDropsOrigin(w) ==
    /\ pc[w] = "assemble"
    /\ LET a == IF db = "down" THEN None
                ELSE _assemble_complete_payload(store, CurSession(w), CurSender(w))
           frame == [session_id |-> CurSession(w), sender_id |-> CurSender(w)]
       IN  IF a = None
           THEN /\ pc' = [pc EXCEPT ![w] = "done"]
                /\ result' = [result EXCEPT ![w] = Raised("TypeError")]
                /\ stack' = [stack EXCEPT ![w] = <<>>]
                /\ UNCHANGED <<store, payload, parsed>>
           ELSE IF a.content = <<>>
           THEN /\ store' = delete_session(store, CurSession(w), CurSender(w))
                /\ Return(w, Outcome(None, Msg("Failed to assemble complete payload")))
                /\ UNCHANGED <<payload, parsed, stack>>
           ELSE IF Len(stack[w]) >= MaxDepth
           THEN /\ pc' = [pc EXCEPT ![w] = "done"]
                /\ result' = [result EXCEPT ![w] = Raised("RecursionError")]
                /\ stack' = [stack EXCEPT ![w] = <<>>]
                /\ UNCHANGED <<store, payload, parsed>>
           ELSE /\ Begin(w, [text |-> a.content, MSISDN |-> "",
                             address |-> CurSender(w),
                             date |-> payload[w].date,
                             date_sent |-> payload[w].date_sent,
                             image_length |-> a.image_length],
                         NoOrigin, Append(stack[w], frame))
                /\ store' = store
    /\ UNCHANGED <<flag, source, db, req, received, obs, calls, published, delivered, nsub>>

\* _assemble_complete_payload and the re-entry of decode_and_publish with
\* the assembled payload.  With no segment left the function returns None
\* and unpacking it raises TypeError, which nothing catches.  A re-entry
\* beyond MaxDepth frames stands for Python's RecursionError.
Assemble(w) ==
    /\ pc[w] = "assemble"
    /\ LET a == IF db = "down" THEN None
                ELSE _assemble_complete_payload(store, CurSession(w), CurSender(w))
           frame == [session_id |-> CurSession(w), sender_id |-> CurSender(w)]
       IN  IF a = None
           THEN /\ pc' = [pc EXCEPT ![w] = "done"]
                /\ result' = [result EXCEPT ![w] = Raised("TypeError")]
                /\ stack' = [stack EXCEPT ![w] = <<>>]
                /\ UNCHANGED <<store, payload, parsed>>
           ELSE IF a.content = <<>>
           THEN /\ store' = delete_session(store, CurSession(w), CurSender(w))
                /\ Return(w, Outcome(None, Msg("Failed to assemble complete payload")))
                /\ UNCHANGED <<payload, parsed, stack>>
           ELSE IF Len(stack[w]) >= MaxDepth
           THEN /\ pc' = [pc EXCEPT ![w] = "done"]
                /\ result' = [result EXCEPT ![w] = Raised("RecursionError")]
                /\ stack' = [stack EXCEPT ![w] = <<>>]
                /\ UNCHANGED <<store, payload, parsed>>
           ELSE /\ Begin(w, [text |-> a.content, MSISDN |-> "",
                             address |-> CurSender(w),
                             date |-> payload[w].date,
                             date_sent |-> payload[w].date_sent,
                             image_length |-> a.image_length],
                         req[w].origin, Append(stack[w], frame))
                /\ store' = store
    /\ UNCHANGED <<flag, source, db, req, received, obs, calls, published, delivered, nsub>>

\* The session a publisher call was reached through (None: a direct one)
Via(w) == IF stack[w] = <<>> THEN None ELSE stack[w][Len(stack[w])]

\* publish_bridge_content(content, phone_number, image_length) and what
\* decode_and_publish makes of the reply.
PublishBridge(w, reply) ==
    /\ pc[w] = "publish_bridge"
    /\ calls' = [calls EXCEPT ![w] =
                    Append(@, [call |-> BridgeCall(payload[w]), reply |-> reply])]
    /\ published' = published (+) SetToBag({[call |-> BridgeCall(payload[w]),
                                             via |-> Via(w)]})
    /\ Return(w, PublishOutcome(reply, TRUE))
    /\ UNCHANGED <<store, flag, source, db, req, payload, parsed, received, stack, obs,
                   delivered, nsub>>

\* Mutant: a failed publish_content call is made again.
PublishPlatformRetries(w, reply) ==
    /\ pc[w] = "publish_platform"
    /\ calls' = [calls EXCEPT ![w] =
                    Append(@, [call |-> PlatformCall(payload[w]), reply |-> reply])]
    /\ published' = published (+) SetToBag({[call |-> PlatformCall(payload[w]),
                                             via |-> Via(w)]})
    /\ IF (reply.rpc_error \/ ~reply.success) /\ Len(calls[w]) < 1
       THEN UNCHANGED <<result, pc>>
       ELSE Return(w, PublishOutcome(reply, FALSE))
    /\ UNCHANGED <<store, flag, source, db, req, payload, parsed, received, stack, obs,
                   delivered, nsub>>

\* publish_content(content, sender, date, date_sent) and what
\* decode_and_publish makes of the reply.
PublishPlatform(w, reply) ==
    /\ pc[w] = "publish_platform"
    /\ calls' = [calls EXCEPT ![w] =
                    Append(@, [call |-> PlatformCall(payload[w]), reply |-> reply])]
    /\ published' = published (+) SetToBag({[call |-> PlatformCall(payload[w]),
                                             via |-> Via(w)]})
    /\ Return(w, PublishOutcome(reply, FALSE))
    /\ UNCHANGED <<store, flag, source, db, req, payload, parsed, received, stack, obs,
                   delivered, nsub>>

\* _handle_image_text_payload after the re-entry returned:
\* SegmentCache.delete_session, then the re-entry's outcome is handed on.
DeleteSession(w) ==
    /\ pc[w] = "delete_session"
    /\ LET frame == stack[w][Len(stack[w])]
           rest == SubSeq(stack[w], 1, Len(stack[w]) - 1)
           publish_message == result[w].message
           publish_error == result[w].error
       IN  /\ store' = IF db = "down" THEN store
                         ELSE delete_session(store, frame.session_id, frame.sender_id)
           /\ stack' = [stack EXCEPT ![w] = rest]
           /\ result' = [result EXCEPT ![w] =
                            IF Truthy(publish_error) THEN Outcome(None, publish_error)
                            ELSE Outcome(publish_message, None)]
           /\ pc' = [pc EXCEPT ![w] = IF rest = <<>> THEN "done" ELSE "delete_session"]
    /\ UNCHANGED <<flag, source, db, req, payload, parsed, received, obs,
                   calls, published, delivered, nsub>>

\* The process handling w's submission dies after the segment was stored:
\* no outcome reaches the transport, which keeps the message for a retry;
\* the table and the publishers keep what was done so far.
Crash(w) ==
    /\ pc[w] \notin {"idle", "done"}
    /\ pc[w] \notin {"store_lookup", "store_insert"} \/ stack[w] # <<>>
    /\ pc' = [pc EXCEPT ![w] = "idle"]
    /\ source' = [source EXCEPT ![w] = [interrupted |-> TRUE, request |-> req[w]]]
    /\ req' = [req EXCEPT ![w] = None]
    /\ payload' = [payload EXCEPT ![w] = NoPayload]
    /\ parsed' = [parsed EXCEPT ![w] = None]
    /\ received' = [received EXCEPT ![w] = 0]
    /\ stack' = [stack EXCEPT ![w] = <<>>]
    /\ result' = [result EXCEPT ![w] = None]
    /\ obs' = [obs EXCEPT ![w] = None]
    /\ calls' = [calls EXCEPT ![w] = <<>>]
    /\ UNCHANGED <<store, flag, db, published, delivered, nsub>>

\* The database goes away or comes back.
Outage ==
    /\ db' = IF db = "up" THEN "down" ELSE "up"
    /\ UNCHANGED <<store, flag, pc, req, payload, parsed, received, stack, result, obs,
                   calls, published, delivered, nsub, source>>

\* The transport takes the outcome; the worker is free again.
Respond(w) ==
    /\ pc[w] = "done"
    /\ pc' = [pc EXCEPT ![w] = "idle"]
    /\ req' = [req EXCEPT ![w] = None]
    /\ payload' = [payload EXCEPT ![w] = NoPayload]
    /\ parsed' = [parsed EXCEPT ![w] = None]
    /\ received' = [received EXCEPT ![w] = 0]
    /\ stack' = [stack EXCEPT ![w] = <<>>]
    /\ result' = [result EXCEPT ![w] = None]
    /\ obs' = [obs EXCEPT ![w] = None]
    /\ calls' = [calls EXCEPT ![w] = <<>>]
    /\ source' = [source EXCEPT ![w] =
                     IF HasListener(req[w])
                     THEN Listener(req[w].transport, req[w].origin, result[w])
                     ELSE IF Interrupted(@) THEN None ELSE @]
    /\ UNCHANGED <<store, flag, db, published, delivered, nsub>>

\* Concurrent ingestion: the transports run decode_and_publish side by side.
Next ==
    \E w \in Workers :
        \/ \E sub \in Inputs : Submit(w, sub, MaxSubmissions)
        \/ StoreLookup(w)
        \/ StoreInsert(w)
        \/ CompleteCount(w)
        \/ CompleteFirst(w)
        \/ Assemble(w)
        \/ \E reply \in PublisherReplies : PublishBridge(w, reply)
        \/ \E reply \in PublisherReplies : PublishPlatform(w, reply)
        \/ DeleteSession(w)
        \/ Respond(w)

Spec == Init /\ [][Next]_vars

\* Sequential ingestion: one transport, one submission at a time.
SeqWorker == 1

NextSeq ==
    \/ \E sub \in SeqInputs : Submit(SeqWorker, sub, MaxSeqSubmissions)
    \/ StoreLookup(SeqWorker)
    \/ StoreInsert(SeqWorker)
    \/ CompleteCount(SeqWorker)
    \/ CompleteFirst(SeqWorker)
    \/ Assemble(SeqWorker)
    \/ \E reply \in PublisherReplies : PublishBridge(SeqWorker, reply)
    \/ \E reply \in PublisherReplies : PublishPlatform(SeqWorker, reply)
    \/ DeleteSession(SeqWorker)
    \/ Respond(SeqWorker)

SpecSeq == Init /\ [][NextSeq]_vars

(***************************************************************************)
(* Ingestion of malformed submissions                                      *)
(***************************************************************************)

SenderY == "+1987654321"

\* A payload record with the fields a transport may or may not fill in
Fields(text, msisdn, address, date, date_sent) ==
    [text |-> text, MSISDN |-> msisdn, address |-> address,
     date |-> date, date_sent |-> date_sent, image_length |-> 0]

\* Image-text headers parse_image_text_metadata refuses: total_segments 0,
\* segment_number = total_segments, segment_number > total_segments (long)
BadHeaders ==
    { ITShort(42, 0, 0, PlatformText),
      ITShort(42, 2, 2, PlatformText),
      ITLong(42, 3, 1, 50, 30, PlatformText) }

\* What the transport of SpecVal hands in: every combination of present and
\* absent fields around a single-segment session, a timestamp of 0, a
\* platform payload, refused headers, values that are no record and JSON
\* texts.
ValInputs ==
    { Request(Fields(t, m, a, d, ds), "http") :
          t \in {<<>>} \cup Session42, m \in {"", SenderY}, a \in {"", SenderX},
          d \in {None, IntTs(T0)}, ds \in {None, IntTs(T0)} }
    \cup { Request(Fields(PlatformText, "", SenderX, d, IntTs(T0)), "http") :
               d \in {IntTs(0), IntTs(T0)} }
    \cup { Request(Fields(t, "", SenderX, IntTs(T0), IntTs(T0)), "http") :
               t \in BadHeaders \cup {ITLong(50, 0, 2, 100, 50, <<"Q", "U">>)} }
    \cup { Request(p, "http") :
               p \in { [nonrecord |-> "list"],
                       [json |-> [nonrecord |-> "list"]],
                       [json |-> [invalid |-> TRUE]],
                       [json |-> Payload(PlatformText, SenderX)] } }

MaxValSubmissions == 2

NextVal ==
    \/ \E sub \in ValInputs : Submit(SeqWorker, sub, MaxValSubmissions)
    \/ StoreLookup(SeqWorker)
    \/ StoreInsert(SeqWorker)
    \/ CompleteCount(SeqWorker)
    \/ CompleteFirst(SeqWorker)
    \/ Assemble(SeqWorker)
    \/ \E reply \in PublisherReplies : PublishBridge(SeqWorker, reply)
    \/ \E reply \in PublisherReplies : PublishPlatform(SeqWorker, reply)
    \/ DeleteSession(SeqWorker)
    \/ Respond(SeqWorker)

SpecVal == Init /\ [][NextVal]_vars

(***************************************************************************)
(* Publishing: what the publishers are handed and what they answer         *)
(***************************************************************************)

\* Replies with an empty message, publisher_response or failure detail (the
\* default of an unset protobuf string) next to the ones of PublisherReplies
EmptyReplies ==
    { [rpc_error |-> FALSE, success |-> TRUE,
       message |-> Msg(""), publisher_response |-> Msg("")],
      [rpc_error |-> FALSE, success |-> FALSE,
       message |-> Msg(""), publisher_response |-> Msg("")],
      [rpc_error |-> TRUE, details |-> Msg("")] }

AllReplies == PublisherReplies \cup EmptyReplies

\* Session 43: one long-form segment holding platform content.
Session43 == { ITLong(43, 0, 1, 0, 0, PlatformText) }

\* Timestamp pairs (date, date_sent): milliseconds that are no multiple of
\* 1000, a text int() refuses, a negative and a small value
PubDates ==
    { <<IntTs(T0), IntTs(T0 + 5999)>>,
      <<TextTs(<<"a", "b", "c">>), IntTs(T0)>>,
      <<IntTs(-1), IntTs(999)>> }

\* Bridge contents: 00 01 02, 00 alone, 00 01
BridgeTexts == { BridgeText, <<"A", "A", "=", "=">>, <<"A", "A", "E", "=">> }

\* What the transport of SpecPub hands in
PubInputs ==
    { Request(Fields(t, "", SenderX, d[1], d[2]), "http") :
          t \in {PlatformText} \cup Session43, d \in PubDates }
    \cup { Request(Fields(t, m, SenderX, IntTs(T0), IntTs(T0)), "smtp") :
               t \in BridgeTexts, m \in {"", SenderY} }
    \cup { Request(Fields(t, "", SenderX, IntTs(T0), IntTs(T0)), "smtp") :
               t \in Session42 }
    \cup { Request(Fields(BridgeText, "", SenderX, IntTs(T0), IntTs(T0)), "http") }

MaxPubSubmissions == 2

NextPub ==
    \/ \E sub \in PubInputs : Submit(SeqWorker, sub, MaxPubSubmissions)
    \/ StoreLookup(SeqWorker)
    \/ StoreInsert(SeqWorker)
    \/ CompleteCount(SeqWorker)
    \/ CompleteFirst(SeqWorker)
    \/ Assemble(SeqWorker)
    \/ \E reply \in AllReplies : PublishBridge(SeqWorker, reply)
    \/ \E reply \in AllReplies : PublishPlatform(SeqWorker, reply)
    \/ DeleteSession(SeqWorker)
    \/ Respond(SeqWorker)

SpecPub == Init /\ [][NextPub]_vars

(***************************************************************************)
(* The header codec and the classification, on many payload texts          *)
(***************************************************************************)

\* Header fields a sender may encode: session_id at both ends of its byte,
\* segment_number < total_segments up to MAX_SEGMENTS, lengths at both ends
\* of their 16 bits and with different high and low bytes
CodecSessions == {0, 42, 255}

CodecSegments == { <<0, 1>>, <<0, 2>>, <<1, 2>>, <<0, 15>>, <<14, 15>> }

CodecLengths == { <<0, 0>>, <<50, 30>>, <<255, 256>>, <<65535, 1>> }

\* The metadata parse_image_text_metadata is to give back
Metadata(session_id, segment_number, total_segments, image_length, text_length) ==
    [session_id |-> session_id, segment_number |-> segment_number,
     total_segments |-> total_segments,
     image_length |-> image_length, text_length |-> text_length]

LongHeaders ==
    { Metadata(s, n[1], n[2], l[1], l[2]) :
          s \in CodecSessions, n \in CodecSegments, l \in CodecLengths }

ShortHeaders ==
    { Metadata(s, n[1], n[2], 0, 0) : s \in CodecSessions, n \in CodecSegments }

EncodeLong(m, content) ==
    ITLong(m.session_id, m.segment_number, m.total_segments,
           m.image_length, m.text_length, content)

EncodeShort(m, content) ==
    ITShort(m.session_id, m.segment_number, m.total_segments, content)

\* Texts that are no image-text payload, or a refused one: another prefix, a
\* letter that is no hex digit, upper-case hex, white space in the header,
\* too short, not base64, wrong padding, bridge and platform content
OtherTexts ==
    BadHeaders \cup Session42 \cup BridgeTexts \cup
    { PlatformText,
      <<"0", "5", "2", "a", "0", "1">> \o PlatformText,
      <<"0", "4", "2", "g", "0", "1">> \o PlatformText,
      <<"0", "4", "2", "A", "1", "F">> \o PlatformText,
      <<"0", "4", " ", "2", "a", " ", "0", "1">> \o PlatformText \o PlatformText,
      <<"0", "4", "2", "a", "0">>,
      <<"0", "4", "2", "a", "0", "1">>,
      <<"0", "4">>,
      <<"B", "A", "D">>,
      <<"!", "@", "#">>,
      <<"Q", "U", "J">>,
      <<"A", "B", "C", "D">> }

\* Base64 content whose first eight characters are hex digits as well
HexLeadingContent == <<"d", "e", "a", "d", "b", "e", "e", "f">> \o PlatformText

CodecContents == { PlatformText, HexLeadingContent }

\* Short headers of segment 1 whose low nibble carries no total
NoTotalTexts == { ITShort(s, 1, 0, PlatformText) : s \in CodecSessions }

CodecInputs ==
    { Request(Fields(t, "", SenderX, IntTs(T0), IntTs(T0)), "http") :
          t \in { EncodeLong(m, PlatformText) : m \in LongHeaders }
                \cup { EncodeShort(m, PlatformText) : m \in ShortHeaders }
                \cup { EncodeShort(Metadata(42, 1, 2, 0, 0), HexLeadingContent),
                       EncodeLong(Metadata(42, 0, 2, 50, 30), HexLeadingContent) }
                \cup NoTotalTexts
                \cup OtherTexts }

MaxCodecSubmissions == 1

NextCodec ==
    \/ \E sub \in CodecInputs : Submit(SeqWorker, sub, MaxCodecSubmissions)
    \/ StoreLookup(SeqWorker)
    \/ StoreInsert(SeqWorker)
    \/ CompleteCount(SeqWorker)
    \/ CompleteFirst(SeqWorker)
    \/ Assemble(SeqWorker)
    \/ \E reply \in PublisherReplies : PublishBridge(SeqWorker, reply)
    \/ \E reply \in PublisherReplies : PublishPlatform(SeqWorker, reply)
    \/ DeleteSession(SeqWorker)
    \/ Respond(SeqWorker)

SpecCodec == Init /\ [][NextCodec]_vars

(***************************************************************************)
(* Sessions side by side: two senders, two session ids, uneven totals      *)
(***************************************************************************)

\* Session 9 of SenderX: segment 0 of 2, segment 1 of 2, and a segment 2
\* that declares 3.  Session 9 of SenderY: its own two segments.  Session 10
\* of SenderX: two segments joining to bridge content.
StoreInputs ==
    { Request(Fields(t, "", SenderX, IntTs(T0), IntTs(T0)), "http") :
          t \in { ITLong(9, 0, 2, 100, 50, <<"Q", "U">>),
                  ITShort(9, 1, 2, <<"J", "D">>),
                  ITShort(9, 2, 3, <<"J", "E">>),
                  ITLong(10, 0, 2, 50, 30, <<"A", "A">>),
                  ITShort(10, 1, 2, <<"E", "C">>) } }
    \cup { Request(Fields(t, "", SenderY, IntTs(T0), IntTs(T0)), "http") :
               t \in { ITLong(9, 0, 2, 70, 20, <<"R", "E">>),
                       ITShort(9, 1, 2, <<"V", "G">>) } }

MaxStoreSubmissions == 3

NextStore ==
    \/ \E sub \in StoreInputs : Submit(SeqWorker, sub, MaxStoreSubmissions)
    \/ StoreLookup(SeqWorker)
    \/ StoreInsert(SeqWorker)
    \/ CompleteCount(SeqWorker)
    \/ CompleteFirst(SeqWorker)
    \/ Assemble(SeqWorker)
    \/ \E reply \in PublisherReplies : PublishBridge(SeqWorker, reply)
    \/ \E reply \in PublisherReplies : PublishPlatform(SeqWorker, reply)
    \/ DeleteSession(SeqWorker)
    \/ Respond(SeqWorker)

SpecStore == Init /\ [][NextStore]_vars

(***************************************************************************)
(* The listeners: POST /publish and the file-transfer server               *)
(***************************************************************************)

\* Texts base64.b64decode refuses: wrong padding, one character too many
UndecodableTexts == { <<"B", "A", "D">>, <<"Q", "U", "J", "D", "Q">> }

\* Texts base64.b64decode turns into zero bytes: no character of the
\* alphabet, padding alone
ZeroByteTexts == { <<"!", "@", "#">>, <<"=", "=", "=", "=">> }

\* What arrives at the listeners: request bodies and file contents
TransportInputs ==
    { Arrival(Fields(t, "", SenderX, IntTs(T0), IntTs(T0)), "http") :
          t \in {PlatformText, BridgeText, <<>>} \cup Session43
                \cup UndecodableTexts \cup ZeroByteTexts }
    \cup { Arrival([json |-> Fields(t, "", SenderX, IntTs(T0), IntTs(T0))], "ftp") :
               t \in {PlatformText, BridgeText, <<>>} \cup Session43 }
    \cup { Arrival([json |-> p], "ftp") :
               p \in { [invalid |-> TRUE], [nonrecord |-> "list"] } }

MaxTransportSubmissions == 2

NextTransport ==
    \/ \E sub \in TransportInputs : Submit(SeqWorker, sub, MaxTransportSubmissions)
    \/ StoreLookup(SeqWorker)
    \/ StoreInsert(SeqWorker)
    \/ CompleteCount(SeqWorker)
    \/ CompleteFirst(SeqWorker)
    \/ Assemble(SeqWorker)
    \/ \E reply \in PublisherReplies : PublishBridge(SeqWorker, reply)
    \/ \E reply \in PublisherReplies : PublishPlatform(SeqWorker, reply)
    \/ DeleteSession(SeqWorker)
    \/ Respond(SeqWorker)

SpecTransport == Init /\ [][NextTransport]_vars

(***************************************************************************)
(* Sessions whose assembled content is a segmented payload again           *)
(***************************************************************************)

\* The only segment of session 77, whose content is that same payload of
\* session 77 around platform content
SelfText == ITLong(77, 0, 1, 0, 0, ITLong(77, 0, 1, 0, 0, PlatformText))

\* The only segment of session 78, holding the only segment of session 79
NestText(inner) == ITLong(78, 0, 1, 0, 0, ITLong(79, 0, 1, 0, 0, inner))

NestInputs ==
    { Request(Fields(t, "", SenderX, IntTs(T0), IntTs(T0)), "http") :
          t \in { SelfText, NestText(PlatformText), NestText(BridgeText),
                  ITLong(79, 0, 2, 0, 0, PlatformText), PlatformText } }

MaxNestSubmissions == 2

NextNest ==
    \/ \E sub \in NestInputs : Submit(SeqWorker, sub, MaxNestSubmissions)
    \/ StoreLookup(SeqWorker)
    \/ StoreInsert(SeqWorker)
    \/ CompleteCount(SeqWorker)
    \/ CompleteFirst(SeqWorker)
    \/ Assemble(SeqWorker)
    \/ \E reply \in PublisherReplies : PublishBridge(SeqWorker, reply)
    \/ \E reply \in PublisherReplies : PublishPlatform(SeqWorker, reply)
    \/ DeleteSession(SeqWorker)
    \/ Respond(SeqWorker)

SpecNest == Init /\ [][NextNest]_vars

(***************************************************************************)
(* Submissions while the database fails                                    *)
(***************************************************************************)

FaultInputs ==
    { Request(Fields(t, "", SenderX, IntTs(T0), IntTs(T0)), "smtp") :
          t \in { ITLong(50, 0, 2, 100, 50, <<"Q", "U">>),
                  ITShort(50, 1, 2, <<"J", "D">>) }
                \cup Session42 \cup {PlatformText} }

MaxFaultSubmissions == 3

NextFault ==
    \/ \E sub \in FaultInputs : Submit(SeqWorker, sub, MaxFaultSubmissions)
    \/ StoreLookup(SeqWorker)
    \/ StoreInsert(SeqWorker)
    \/ CompleteCount(SeqWorker)
    \/ CompleteFirst(SeqWorker)
    \/ Assemble(SeqWorker)
    \/ \E reply \in PublisherReplies : PublishBridge(SeqWorker, reply)
    \/ \E reply \in PublisherReplies : PublishPlatform(SeqWorker, reply)
    \/ DeleteSession(SeqWorker)
    \/ Respond(SeqWorker)
    \/ Outage

SpecFault == Init /\ [][NextFault]_vars

(***************************************************************************)
(* Interrupted submissions and their retry                                 *)
(***************************************************************************)

CrashInputs ==
    { Request(Fields(t, "", SenderX, IntTs(T0), IntTs(T0)), "smtp") :
          t \in { ITLong(50, 0, 2, 100, 50, <<"Q", "U">>),
                  ITShort(50, 1, 2, <<"J", "D">>) }
                \cup Session42 \cup Session43 }

\* The transport hands in each message once, and again only the one whose
\* handling was interrupted
MayDeliver(w, sub) ==
    \/ sub \notin delivered /\ ~Interrupted(source[w])
    \/ Interrupted(source[w]) /\ source[w].request = sub

MaxCrashSubmissions == 4

\* A first delivery, or the retry of the interrupted message
Deliver(w, sub) ==
    /\ MayDeliver(w, sub)
    /\ Submit(w, sub, MaxCrashSubmissions)

NextCrash ==
    \/ \E sub \in CrashInputs : Deliver(SeqWorker, sub)
    \/ StoreLookup(SeqWorker)
    \/ StoreInsert(SeqWorker)
    \/ CompleteCount(SeqWorker)
    \/ CompleteFirst(SeqWorker)
    \/ Assemble(SeqWorker)
    \/ \E reply \in PublisherReplies : PublishBridge(SeqWorker, reply)
    \/ \E reply \in PublisherReplies : PublishPlatform(SeqWorker, reply)
    \/ DeleteSession(SeqWorker)
    \/ Respond(SeqWorker)
    \/ Crash(SeqWorker)

SpecCrash == Init /\ [][NextCrash]_vars

(***************************************************************************)
(* Properties                                                              *)
(***************************************************************************)

Group(session_id, sender_id) == [session_id |-> session_id, sender_id |-> sender_id]

\* The groups the checks look at: the sessions of the inputs and one that
\* nobody ever writes.
SessionIds == {50, 42, 7, 99}

Groups == { Group(s, SenderX) : s \in SessionIds }

\* The segments of group g handed in so far, as the parser reads them
IsSegmentOf(sub, g) ==
    /\ SenderOf(sub.payload) = g.sender_id
    /\ parse_image_text_payload(sub.payload.text) # None
    /\ parse_image_text_payload(sub.payload.text).metadata.session_id = g.session_id

DeliveredSegments(g) ==
    { parse_image_text_payload(d.payload.text) : d \in { x \in delivered : IsSegmentOf(x, g) } }

DeliveredOrigins(g) == { d.origin : d \in { x \in delivered : IsSegmentOf(x, g) } }

\* One session: every segment declares the same total, and a segment number
\* always comes with the same header and content (re-deliveries are duplicates).
OneSession(segs) ==
    \A a, b \in segs :
        /\ a.metadata.total_segments = b.metadata.total_segments
        /\ a.metadata.segment_number = b.metadata.segment_number => a = b

DeclaredTotal(segs) == (CHOOSE a \in segs : TRUE).metadata.total_segments

AllDelivered(segs) ==
    /\ segs # {}
    /\ \A k \in 0..(DeclaredTotal(segs) - 1) :
          \E a \in segs : a.metadata.segment_number = k

RECURSIVE ContentFrom(_, _)
ContentFrom(segs, k) ==
    IF k >= DeclaredTotal(segs) THEN <<>>
    ELSE (CHOOSE a \in segs : a.metadata.segment_number = k).content
             \o ContentFrom(segs, k + 1)

\* The assembled content is something a publisher is called with: it is not
\* itself segmented, it decodes, and the bridge policy lets it through.
Publishable(text, origin) ==
    Dispatch(Payload(text, SenderX), origin, flag).next
        \in {"publish_bridge", "publish_platform"}

\* Number of publisher calls made for the assembled content of group g
PublishedVia(g) ==
    LET hits == { e \in BagToSet(published) : e.via = g } IN
    BagCardinality([e \in hits |-> published[e]])

\* C1: exactly-once dispatch.  Sequential submissions that deliver every
\* segment 0..N-1 of one session at least once, in any order and with
\* duplicates anywhere (also after the session completed), lead to exactly one
\* publisher call with the session's assembled content.
C1_ExactlyOnceDispatch ==
    pc[SeqWorker] = "idle" =>
        \A g \in Groups :
            LET segs == DeliveredSegments(g) IN
            ( /\ segs # {}
              /\ OneSession(segs)
              /\ AllDelivered(segs)
              /\ \A o \in DeliveredOrigins(g) : Publishable(ContentFrom(segs, 0), o) )
            => PublishedVia(g) = 1

\* The sessions w has observed complete and not yet deleted
Holding(w) ==
    { stack[w][i] : i \in 1..Len(stack[w]) }
        \cup (IF pc[w] = "assemble"
              THEN {Group(CurSession(w), CurSender(w))} ELSE {})

\* C2: completeness evaluation followed by assemble, publish and delete is
\* one atomic unit per session: no submission assembles, publishes or deletes
\* a session that another running submission has already observed complete.
C2_CompletionIsAtomic ==
    \A w1, w2 \in Workers : w1 # w2 => Holding(w1) \cap Holding(w2) = {}

SegmentKey(r) == <<r.session_id, r.sender_id, r.segment_number>>

\* C3: the table holds at most one row per (session_id, sender_id,
\* segment_number), whatever the interleaving of the concurrent lookups and
\* inserts.
C3_UniqueSegmentRows ==
    \A i, j \in 1..Len(store) : SegmentKey(store[i]) = SegmentKey(store[j]) => i = j

StoreFailed == Outcome(None, Msg("Failed to store message segment"))

\* C3 witness: two deliveries of one segment raced, one row is stored and the
\* index refused the second insert.
C3_Witness ==
    \E w \in Workers :
        /\ pc[w] = "done"
        /\ result[w] = StoreFailed
        /\ HasSegment(store, CurSession(w), CurSender(w),
                      parsed[w].metadata.segment_number)

\* C4: a duplicate delivery of a segment, stored already or being stored by
\* a concurrent submission, is never surfaced as an error: no submission ends
\* with the store failure.
C4_DuplicateNeverAnError ==
    \A w \in Workers : pc[w] = "done" => result[w] # StoreFailed

RowsOf(table) == { table[i] : i \in 1..Len(table) }

\* C5: first write wins.  A store_segment call for a key that is already
\* stored returns success and writes nothing, whatever content, total or
\* lengths it carries; a stored row is never changed, it only disappears
\* when its whole session is deleted.
C5_FirstWriteWins ==
    [][ /\ \A w \in Workers :
              ( /\ pc[w] = "store_lookup"
                /\ pc'[w] # "store_lookup"
                /\ HasSegment(store, CurSession(w), CurSender(w),
                              parsed[w].metadata.segment_number) )
              => (pc'[w] = "complete_count" /\ store' = store)
        /\ \A r \in RowsOf(store) :
              \/ r \in RowsOf(store')
              \/ SessionRows(store', r.session_id, r.sender_id) = <<>>
      ]_vars

\* C5 witness: a second write of a stored key, with other content, was
\* absorbed: the call succeeded and the stored row still has the first content.
C5_Witness ==
    \E w \in Workers :
        /\ pc[w] = "complete_count"
        /\ \E r \in RowsOf(store) :
              /\ SegmentKey(r) = <<CurSession(w), CurSender(w),
                                   parsed[w].metadata.segment_number>>
              /\ r.content # parsed[w].content

\* The content of the group's rows, segment number by segment number
RECURSIVE JoinByNumber(_, _, _)
JoinByNumber(table, g, k) ==
    IF k > MAX_SEGMENTS THEN <<>>
    ELSE LET Numbered(r) == /\ r.session_id = g.session_id
                            /\ r.sender_id = g.sender_id
                            /\ r.segment_number = k
         IN  JoinContent(SelectSeq(table, Numbered)) \o JoinByNumber(table, g, k + 1)

Ascending(rows) ==
    \A i, j \in 1..Len(rows) : i < j => rows[i].segment_number < rows[j].segment_number

\* C6: order-independent assembly.  Whatever order the segments arrived in,
\* get_segments returns the group's rows in ascending segment_number, and
\* the content _assemble_complete_payload hands to the re-entry is the
\* concatenation of the stored segments' content in ascending segment_number.
C6_OrderIndependentAssembly ==
    /\ [](\A g \in Groups :
            LET rows == get_segments(store, g.session_id, g.sender_id) IN
            /\ Ascending(rows)
            /\ RowsOf(rows) = RowsOf(SessionRows(store, g.session_id, g.sender_id))
            /\ Len(rows) = Len(SessionRows(store, g.session_id, g.sender_id)))
    /\ [][ \A w \in Workers :
             (pc[w] = "assemble" /\ Len(stack'[w]) = Len(stack[w]) + 1) =>
                 payload'[w].text =
                     JoinByNumber(store, Group(CurSession(w), CurSender(w)), 0)
         ]_vars

\* C6 witness: a three-segment session whose rows were inserted out of
\* order has been assembled.
C6_Witness ==
    \E w \in Workers :
        /\ Len(stack[w]) = 1
        /\ LET rows == SessionRows(store, stack[w][1].session_id, stack[w][1].sender_id)
           IN  Len(rows) = 3 /\ ~Ascending(rows)

UniformTotal(rows, n) == \A i \in 1..Len(rows) : rows[i].total_segments = n

\* C7: completeness is exact.  For a session whose segments declare the
\* total N, is_session_complete answers (false, r, N) at every stored count
\* r < N and complete only at r = N; for a group without rows it answers
\* (false, 0, 0).  The orchestrator goes on to assemble only at r = N.
C7_CompletenessExact ==
    /\ \A g \in Groups :
          LET rows == SessionRows(store, g.session_id, g.sender_id)
              c == SessionComplete(store, g.session_id, g.sender_id)
          IN  /\ rows = <<>> =>
                    c = [is_complete |-> FALSE, received |-> 0, total |-> 0]
              /\ \A n \in 1..MAX_SEGMENTS :
                    (rows # <<>> /\ UniformTotal(rows, n)) =>
                        c = [is_complete |-> Len(rows) = n, received |-> Len(rows),
                             total |-> n]
    /\ \A w \in Workers :
          (pc[w] = "assemble" /\ stack[w] = <<>>) =>
              /\ obs[w].is_complete
              /\ obs[w].received = obs[w].total
              /\ obs[w].total = parsed[w].metadata.total_segments
              /\ CountSegments(store, CurSession(w), CurSender(w)) = obs[w].total

\* C7 witness: the three-segment session was reported complete at 3 of 3.
C7_Witness ==
    \E w \in Workers :
        /\ pc[w] = "assemble"
        /\ obs[w] = [is_complete |-> TRUE, received |-> 3, total |-> 3]

InCompletenessCheck(w) == pc[w] \in {"complete_count", "complete_first"}

PublisherSucceeded(reply) == ~reply.rpc_error /\ reply.success

BridgeRestrictedError == Outcome(None, Msg("Bridge payloads over HTTP are restricted."))

\* C10: the bridge-over-HTTP policy.  A bridge-classified submission from
\* origin http with the restriction flag enabled returns the restricted
\* error and calls no publisher; from smtp or ftp, or with the flag
\* disabled, it calls the bridge publisher exactly once and never the
\* platform publisher.
C10_BridgeOverHttpPolicy ==
    \A w \in Workers :
        ( /\ pc[w] = "done"
          /\ _validate_payload_fields(req[w].payload) = None
          /\ detect_payload_type(req[w].payload.text) = "bridge" )
        => IF req[w].origin = "http" /\ flag
           THEN result[w] = BridgeRestrictedError /\ calls[w] = <<>>
           ELSE /\ Len(calls[w]) = 1
                /\ calls[w][1].call.publisher = "bridge"
                /\ result[w] # BridgeRestrictedError

\* C10 witness: with the flag enabled the bridge payload was refused over
\* http before, and the same payload over smtp has now reached the bridge
\* publisher once.
C10_Witness ==
    \E w \in Workers :
        /\ pc[w] = "done"
        /\ flag
        /\ req[w] = Submission(BridgeText, SenderX, "smtp")
        /\ Len(calls[w]) = 1
        /\ calls[w][1].call.publisher = "bridge"
        /\ Submission(BridgeText, SenderX, "http") \in delivered
        /\ PublishedVia(None) = 1

\* A submitted payload that is a record, as such or after json.loads
IsRecord(raw) == "text" \in DOMAIN Loaded(raw)

\* The first field a record lacks, in the order text, sender, date,
\* date_sent, as the error that names it; None when it lacks none.
FirstMissing(p) ==
    IF p.text = <<>> THEN Msg("Missing required field: text")
    ELSE IF p.MSISDN = "" /\ p.address = ""
    THEN Msg("Missing required field: address or MSISDN")
    ELSE IF FalsyTs(p.date) THEN Msg("Missing required field: date")
    ELSE IF FalsyTs(p.date_sent) THEN Msg("Missing required field: date_sent")
    ELSE None

\* w takes a submission in this step
Accepts(w) == pc[w] = "idle" /\ pc'[w] # "idle"

\* C11: validation precedes every side effect.  A submission that lacks
\* text, sender (neither MSISDN nor address), date or date_sent returns the
\* error naming the first missing field in that order, with the segment
\* store unchanged and no publisher invoked; a sender under either field name
\* passes the sender check.
C11_ValidationPrecedesSideEffects ==
    [][ \A w \in Workers :
          (Accepts(w) /\ IsRecord(req'[w].payload)) =>
              LET p == Loaded(req'[w].payload) IN
              /\ FirstMissing(p) # None =>
                    /\ pc'[w] = "done"
                    /\ result'[w] = Outcome(None, FirstMissing(p))
                    /\ store' = store
                    /\ published' = published
                    /\ calls'[w] = <<>>
              /\ (p.text # <<>> /\ (p.MSISDN # "" \/ p.address # "")) =>
                    result'[w] #
                        Outcome(None, Msg("Missing required field: address or MSISDN"))
      ]_vars

\* C11 witness: with a segment stored, a submission without sender was
\* turned down naming the sender, although its timestamps are missing too.
C11_Witness ==
    \E w \in Workers :
        /\ pc[w] = "done"
        /\ store # <<>>
        /\ req[w].payload \in {Fields(t, "", "", None, None) : t \in Session42}
        /\ result[w] = Outcome(None, Msg("Missing required field: address or MSISDN"))
        /\ calls[w] = <<>>

\* C13: decode_and_publish never raises: every submission ends with an
\* outcome pair, never with an uncaught exception reaching the transport.
C13_NeverRaises ==
    \A w \in Workers : pc[w] = "done" => ~IsRaised(result[w])

\* C12: every invocation of decode_and_publish that returns yields a
\* (message, error) pair with exactly one side populated, never both and
\* never neither, whatever the publisher answered.
C12_ExactlyOneSide ==
    \A w \in Workers :
        (pc[w] = "done" /\ ~IsRaised(result[w])) =>
            (result[w].message # None) # (result[w].error # None)

\* w makes a publisher call in this step; the call and its reply
Publishes(w) == Len(calls'[w]) = Len(calls[w]) + 1

LastCall(w) == calls'[w][Len(calls'[w])]

\* floor(value / 1000) of a millisecond value, as the text the publisher gets
Seconds(ms) == TextTs(StrOfInt(ms \div 1000))

\* What the platform publisher is to get for a submitted timestamp
ExpectedTimestamp(ts) ==
    IF "int" \in DOMAIN ts THEN Seconds(ts.int) ELSE ts

\* C18: timestamp conversion.  The platform publisher receives date and
\* date_sent each as the string of floor(value / 1000) of the submitted
\* millisecond value, for a single-shot submission and for a reassembled
\* session alike; a value that is not numeric is passed through unchanged.
C18_TimestampConversion ==
    [][ \A w \in Workers :
          (Publishes(w) /\ LastCall(w).call.publisher = "platform") =>
              /\ LastCall(w).call.date = ExpectedTimestamp(Loaded(req[w].payload).date)
              /\ LastCall(w).call.date_sent =
                     ExpectedTimestamp(Loaded(req[w].payload).date_sent)
      ]_vars

\* C18 witness: a reassembled session reached the platform publisher with
\* the seconds of its submission's milliseconds, and a single-shot one with
\* its non-numeric date as it was.
C18_Witness ==
    /\ \E e \in BagToSet(published) :
          /\ e.via # None
          /\ e.call.publisher = "platform"
          /\ e.call.date = Seconds(T0)
          /\ e.call.date_sent = Seconds(T0 + 5999)
    /\ \E e \in BagToSet(published) :
          /\ e.via = None
          /\ e.call.publisher = "platform"
          /\ e.call.date = TextTs(<<"a", "b", "c">>)

\* C19: bridge content extraction.  Every bridge-classified submission that
\* the policy admits reaches the bridge publisher, and what the publisher is
\* handed decodes to the submission's decoded bytes without the leading
\* marker byte 0, together with the submission's sender.
C19_BridgeContentExtraction ==
    /\ [][ \A w \in Workers :
             (Publishes(w) /\ LastCall(w).call.publisher = "bridge") =>
                 LET bytes == b64decode(payload[w].text).val
                     sent == b64decode(LastCall(w).call.content)
                 IN  /\ bytes[1] = 0
                     /\ sent.ok
                     /\ <<0>> \o sent.val = bytes
                     /\ LastCall(w).call.sender = SenderOf(payload[w])
         ]_vars
    /\ [](\A w \in Workers :
             ( /\ pc[w] = "done"
               /\ IsRecord(req[w].payload)
               /\ FirstMissing(Loaded(req[w].payload)) = None
               /\ detect_payload_type(Loaded(req[w].payload).text) = "bridge"
               /\ ~(req[w].origin = "http" /\ flag) )
             => /\ Len(calls[w]) = 1
                /\ calls[w][1].call.publisher = "bridge"
                /\ calls[w][1].call.sender = SenderOf(Loaded(req[w].payload)))

\* C19 witness: the bridge publisher got 01 02 ("AQI=") for a submission of
\* 00 01 02 from the sender given as MSISDN, and nothing for one of 00 alone.
C19_Witness ==
    /\ \E e \in BagToSet(published) :
          /\ e.via = None
          /\ e.call.publisher = "bridge"
          /\ e.call.content = <<"A", "Q", "I", "=">>
          /\ e.call.sender = SenderY
    /\ \E e \in BagToSet(published) :
          /\ e.call.publisher = "bridge"
          /\ e.call.content = <<>>

\* What a publisher reply is to become: the error's detail, the message of
\* an unsuccessful response, or the success text of the branch
ExpectedOutcome(reply, publisher) ==
    IF reply.rpc_error THEN Outcome(None, reply.details)
    ELSE IF ~reply.success THEN Outcome(None, reply.message)
    ELSE IF publisher = "bridge" THEN Outcome(reply.message, None)
    ELSE Outcome(reply.publisher_response, None)

\* C20: publisher result mapping.  The outcome of a submission that called a
\* publisher is (none, the error's detail) after a transport error, (none,
\* the response's message) after success = false, and after a success
\* (response.message, none) on the bridge branch and
\* (response.publisher_response, none) on the platform branch.
C20_PublisherResultMapping ==
    \A w \in Workers :
        (pc[w] = "done" /\ Len(calls[w]) = 1) =>
            result[w] = ExpectedOutcome(calls[w][1].reply, calls[w][1].call.publisher)

\* The text of the submission w is working on
TextOf(w) == Loaded(req[w].payload).text

\* w is working on a submission whose required fields are all there
Working(w) ==
    /\ pc[w] # "idle"
    /\ IsRecord(req[w].payload)
    /\ FirstMissing(Loaded(req[w].payload)) = None

\* The segmented-header shape: the marker byte 4 in hex and four hex digits
HeaderShape(c) ==
    /\ Len(c) >= 6
    /\ c[1] = "0" /\ c[2] = "4"
    /\ \A i \in 3..6 : IsHexChar(c[i])

\* The bridge marker: the text decodes from base64 and its first byte is 0
BridgeMarked(c) ==
    LET d == b64decode(c) IN d.ok /\ d.val # <<>> /\ d.val[1] = 0

\* Where an invocation classified image-text, bridge or platform stands
\* after its first step, or the error it ended with
AfterDispatch(tag) ==
    CASE tag = "image-text" ->
             [pcs |-> {"store_lookup"},
              errors |-> {Msg("Failed to parse image-text payload")}]
      [] tag = "bridge" ->
             [pcs |-> {"publish_bridge"},
              errors |-> {Msg("Bridge payloads over HTTP are restricted.")}]
      [] tag = "platform" ->
             [pcs |-> {"publish_platform"},
              errors |-> {Msg("Invalid Base64-encoded payload"),
                          Msg("Decoded payload is empty")}]

\* The step that takes the submission treats it as tag
TreatedAs(w, tag) ==
    \/ pc'[w] \in AfterDispatch(tag).pcs
    \/ /\ pc'[w] = "done"
       /\ ~IsRaised(result'[w])
       /\ result'[w].message = None
       /\ result'[w].error \in AfterDispatch(tag).errors

SegmentDigit(c) == HexVal(c[5])

TotalDigit(c) == HexVal(c[6])

\* The header of c fails validation
FailsValidation(c) == TotalDigit(c) < 1 \/ SegmentDigit(c) >= TotalDigit(c)

GroupsIn(table) == { Group(r.session_id, r.sender_id) : r \in RowsOf(table) }

\* The rows of group g in table, in table order
OwnRows(table, g) ==
    LET Own(r) == r.session_id = g.session_id /\ r.sender_id = g.sender_id
    IN  SelectSeq(table, Own)

\* The group the storage call w stands before works on
OperatesOn(w) ==
    IF pc[w] = "delete_session" THEN stack[w][Len(stack[w])]
    ELSE IF parsed[w] # None THEN Group(CurSession(w), CurSender(w))
    ELSE None

\* C21: session isolation.  store_segment, is_session_complete, assembly and
\* delete_session on one (session_id, sender_id) group leave the rows of
\* every other group as they are, and what they answer does not depend on
\* the rows of another group: for another session id and for the same
\* session id of another sender.
C21_SessionIsolation ==
    /\ [][ \A g \in GroupsIn(store) \cup GroupsIn(store') :
             OwnRows(store', g) # OwnRows(store, g) =>
                 \E w \in Workers : pc'[w] # pc[w] /\ OperatesOn(w) = g
         ]_vars
    /\ [](\A g \in GroupsIn(store) :
             LET own == OwnRows(store, g) IN
             /\ get_segments(store, g.session_id, g.sender_id)
                    = get_segments(own, g.session_id, g.sender_id)
             /\ SessionComplete(store, g.session_id, g.sender_id)
                    = SessionComplete(own, g.session_id, g.sender_id)
             /\ _assemble_complete_payload(store, g.session_id, g.sender_id)
                    = _assemble_complete_payload(own, g.session_id, g.sender_id)
             /\ \A k \in 0..MAX_SEGMENTS :
                    HasSegment(store, g.session_id, g.sender_id, k)
                        = HasSegment(own, g.session_id, g.sender_id, k))

\* C21 witness: session 9 of SenderX was completed, published and deleted
\* while segment 0 of session 9 of SenderY stays stored, untouched.
C21_Witness ==
    /\ PublishedVia(Group(9, SenderX)) = 1
    /\ CountSegments(store, 9, SenderX) = 0
    /\ OwnRows(store, Group(9, SenderY))
           = << Row(9, SenderY, Metadata(9, 0, 2, 70, 20), <<"R", "E">>) >>

\* C22: delete_session removes every row of its (session_id, sender_id)
\* group in one step and returns the number removed, 0 for a group with no
\* row; afterwards the group has no segment, and no other row has changed.
C22_DeleteSessionWhole ==
    [][ \A w \in Workers :
          (pc[w] = "delete_session" /\ stack'[w] # stack[w]) =>
              LET g == stack[w][Len(stack[w])]
                  n == deleted_count(store, g.session_id, g.sender_id)
              IN  /\ CountSegments(store', g.session_id, g.sender_id) = 0
                  /\ n = CountSegments(store, g.session_id, g.sender_id)
                  /\ Len(store') = Len(store) - n
                  /\ (n = 0 => store' = store)
                  /\ \A h \in GroupsIn(store) \ {g} :
                         OwnRows(store', h) = OwnRows(store, h)
      ]_vars

\* C22 witness: two submissions observed session 50 complete with two
\* segments; both have called delete_session, the first removed the two rows
\* and the second found none.
C22_Witness ==
    /\ \A w \in Workers :
           /\ pc[w] = "done"
           /\ obs[w] = [is_complete |-> TRUE, received |-> 2, total |-> 2]
           /\ req[w].payload.text \in Session50
    /\ CountSegments(store, 50, SenderX) = 0

AssemblyFailed == Outcome(None, Msg("Failed to assemble complete payload"))

\* C23: assembly failure handling.  When a submission that observed its
\* session complete finds at assembly that nothing can be assembled (no
\* segment is found, or the joined content is empty), it deletes the session,
\* returns 'Failed to assemble complete payload' as data and calls no
\* publisher.
C23_AssemblyFailureHandled ==
    [][ \A w \in Workers :
          (pc[w] = "assemble" /\ pc'[w] # pc[w]) =>
              LET a == _assemble_complete_payload(store, CurSession(w), CurSender(w))
              IN  (a = None \/ a.content = <<>>) =>
                      /\ result'[w] = AssemblyFailed
                      /\ calls'[w] = calls[w]
                      /\ CountSegments(store', CurSession(w), CurSender(w)) = 0
      ]_vars

IsSuccess(r) == ~IsRaised(r) /\ r.error = None /\ r.message # None

\* C24: the transport acknowledgement contract.  A listener acknowledges
\* or deletes its source message only when the outcome it got back is a
\* success (on an error the message, for the file-transfer listener the
\* received file, is kept), and the origin it passed to decode_and_publish
\* is its own tag.
C24_TransportContract ==
    \A w \in Workers :
        source[w] # None =>
            /\ source[w].acknowledged => IsSuccess(source[w].outcome)
            /\ source[w].origin = source[w].transport

\* The groups the submissions of SpecStore can address
StoreGroups == { Group(n, a) : n \in {9, 10}, a \in {SenderX, SenderY} }

SegmentNumbers(rows) == { rows[i].segment_number : i \in 1..Len(rows) }

\* C25: assembly tolerates gaps.  Whatever non-empty set of segment numbers
\* a group has stored, _assemble_complete_payload returns the content of the
\* stored segments joined in ascending segment_number, the missing numbers
\* skipped, with the image_length of the zero-numbered segment (when it is
\* stored); it returns None only for a group with no segment.  The re-entry
\* receives that content and that image_length.
C25_AssemblyToleratesGaps ==
    /\ [](\A g \in StoreGroups :
            LET a == _assemble_complete_payload(store, g.session_id, g.sender_id)
                rows == OwnRows(store, g)
            IN  /\ a = None <=> rows = <<>>
                /\ rows # <<>> =>
                       /\ a.content = JoinByNumber(store, g, 0)
                       /\ \A r \in RowsOf(rows) :
                              r.segment_number = 0 => a.image_length = r.image_length)
    /\ [][ \A w \in Workers :
             (pc[w] = "assemble" /\ Len(stack'[w]) = Len(stack[w]) + 1) =>
                 LET g == Group(CurSession(w), CurSender(w)) IN
                 /\ payload'[w].text = JoinByNumber(store, g, 0)
                 /\ \A r \in RowsOf(OwnRows(store, g)) :
                        r.segment_number = 0 =>
                            payload'[w].image_length = r.image_length
         ]_vars

\* C25 witness: session 9 holds segments 0 and 2 and no segment 1; it has
\* been assembled to "QU" followed by "JE" with the image_length 100 of
\* segment 0.
C25_Witness ==
    \E w \in Workers :
        /\ Len(stack[w]) = 1
        /\ stack[w][1] = Group(9, SenderX)
        /\ SegmentNumbers(OwnRows(store, Group(9, SenderX))) = {0, 2}
        /\ payload[w].text = <<"Q", "U", "J", "E">>
        /\ payload[w].image_length = 100

\* C26: unambiguous header/content boundary.  Whatever characters the
\* content starts with, a short-form payload parses to its header's metadata
\* and exactly the text after the short header, a long-form payload to
\* exactly the text after the long header.
C26_HeaderContentBoundary ==
    \A w \in Workers :
        Working(w) =>
            \A c \in CodecContents :
                /\ \A m \in ShortHeaders :
                       TextOf(w) = EncodeShort(m, c) =>
                           parse_image_text_payload(TextOf(w))
                               = [metadata |-> m, content |-> c]
                /\ \A m \in LongHeaders :
                       TextOf(w) = EncodeLong(m, c) =>
                           parse_image_text_payload(TextOf(w))
                               = [metadata |-> m, content |-> c]

\* C27: short-form metadata.  A short header of session_id s and a non-zero
\* segment_number n, whatever its low nibble holds, parses to session_id s,
\* segment_number n, total_segments 0, image_length 0 and text_length 0.
C27_ShortFormMetadata ==
    \A w \in Workers :
        Working(w) =>
            \A s \in CodecSessions, n \in 1..(MAX_SEGMENTS - 1), t \in 0..MAX_SEGMENTS :
                TextOf(w) = ITShort(s, n, t, PlatformText) =>
                    parse_image_text_metadata(Slice(TextOf(w), 2, 6))
                        = Metadata(s, n, 0, 0, 0)

IsError(r) == ~IsRaised(r) /\ r.message = None /\ r.error # None

\* A long-form submission whose header carries a segment_number other than 0
LongFormLater(w) ==
    /\ Working(w)
    /\ \E m \in LongHeaders :
           m.segment_number # 0 /\ TextOf(w) = EncodeLong(m, PlatformText)

\* C29: a long-form segment whose segment_number is not 0 is refused as a
\* parse failure before anything is stored: its outcome is an error and no
\* step of its handling changes the segment store.
C29_LongFormOnlySegmentZero ==
    /\ [](\A w \in Workers :
            (LongFormLater(w) /\ pc[w] = "done") => IsError(result[w]))
    /\ [][ \A w \in Workers : LongFormLater(w) => store' = store ]_vars

\* The total_segments the stored zero-numbered segment of g declares
\* (None when segment 0 is not stored)
TotalOfSegmentZero(table, g) ==
    LET zero == { r \in RowsOf(OwnRows(table, g)) : r.segment_number = 0 } IN
    IF zero = {} THEN None ELSE [total |-> (CHOOSE r \in zero : TRUE).total_segments]

\* C28: a session is complete only on the authority of its zero-numbered
\* segment.  In every reachable state is_session_complete answers complete
\* for a group only if segment 0 of the group is stored and the stored count
\* equals the total_segments segment 0 declares; so does every answer a
\* submission has acted on.
C28_CompleteOnlyBySegmentZero ==
    /\ \A g \in StoreGroups :
           SessionComplete(store, g.session_id, g.sender_id).is_complete =>
               TotalOfSegmentZero(store, g)
                   = [total |-> CountSegments(store, g.session_id, g.sender_id)]
    /\ \A w \in Workers :
           (pc[w] = "assemble" /\ stack[w] = <<>>) =>
               TotalOfSegmentZero(store, Group(CurSession(w), CurSender(w)))
                   = [total |-> obs[w].received]

\* C30: ordering on completion.  The segments of an assembled session are
\* deleted before the re-entry with the assembled content: whenever a
\* re-entered invocation runs, and at the moment it calls a publisher, no
\* segment of the session it was assembled from is stored.
C30_DeleteBeforeReentry ==
    \A w \in Workers :
        (stack[w] # <<>> /\ pc[w] \in {"publish_bridge", "publish_platform"}) =>
            CountSegments(store, Via(w).session_id, Via(w).sender_id) = 0

\* C31: termination.  Every invocation ends with a single outcome after a
\* bounded number of re-entries: no session is assembled again inside its
\* own assembly (the waiting frames of an invocation are pairwise distinct,
\* so their number is bounded by the number of stored sessions), and no
\* invocation ends by exhausting the call stack.
C31_BoundedReentry ==
    \A w \in Workers :
        /\ \A i, j \in 1..Len(stack[w]) : stack[w][i] = stack[w][j] => i = j
        /\ (pc[w] = "assemble" /\ stack[w] # <<>>) =>
               \A i \in 1..Len(stack[w]) :
                   stack[w][i] # Group(CurSession(w), CurSender(w))
        /\ result[w] # Raised("RecursionError")

\* w runs, or has finished, the invocation re-entered with assembled content
Reentered(w) ==
    \/ stack[w] # <<>>
    \/ pc[w] = "done" /\ obs[w] # None /\ obs[w].is_complete /\ ~IsRaised(result[w])

\* C32: the bridge-over-HTTP restriction covers reassembled content.  When a
\* session is completed by a submission from http with the restriction flag
\* enabled and the assembled content is bridge-classified, the bridge
\* publisher is never called and the outcome is the bridge-restricted error;
\* the re-entry carries the sender and timestamps of the completing
\* submission.
C32_RestrictionCoversReassembly ==
    /\ [](\A w \in Workers :
            ( /\ Reentered(w)
              /\ req[w].origin = "http" /\ flag
              /\ detect_payload_type(payload[w].text) = "bridge" )
            => /\ pc[w] # "publish_bridge"
               /\ calls[w] = <<>>
               /\ pc[w] \in {"delete_session", "done"} =>
                      result[w] = BridgeRestrictedError)
    /\ [][ \A w \in Workers :
             (pc[w] = "assemble" /\ Len(stack'[w]) = Len(stack[w]) + 1) =>
                 /\ payload'[w].address = CurSender(w)
                 /\ payload'[w].date = payload[w].date
                 /\ payload'[w].date_sent = payload[w].date_sent
         ]_vars

\* C32 witness: the only segment of session 42, bridge content, arrived over
\* http with the flag enabled; the submission ended with the restricted
\* error, no publisher call, and the session deleted.
C32_Witness ==
    \E w \in Workers :
        /\ pc[w] = "done"
        /\ flag
        /\ req[w] \in { Submission(t, SenderX, "http") : t \in Session42 }
        /\ obs[w] = [is_complete |-> TRUE, received |-> 1, total |-> 1]
        /\ result[w] = BridgeRestrictedError
        /\ calls[w] = <<>>
        /\ CountSegments(store, 42, SenderX) = 0

\* C33: no retry inside the core.  One top-level invocation makes at most
\* one publisher call in all, never one to each publisher, and a submission
\* that has made its call, failed or not, stands before no further one.
C33_AtMostOnePublisherCall ==
    \A w \in Workers :
        /\ Len(calls[w]) <= 1
        /\ calls[w] # <<>> => pc[w] \notin {"publish_bridge", "publish_platform"}

\* C33 witness: the platform publisher failed at the transport level; the
\* submission returned its error after that single call.
C33_Witness ==
    \E w \in Workers :
        /\ pc[w] = "done"
        /\ Len(calls[w]) = 1
        /\ calls[w][1].reply.rpc_error
        /\ calls[w][1].call.publisher = "platform"
        /\ result[w] = Outcome(None, Msg("Service unavailable"))

InvalidEncoding == Outcome(None, Msg("Invalid Base64-encoded payload"))

EmptyPayload == Outcome(None, Msg("Decoded payload is empty"))

\* r is a well-formed submission that is not segmented
NonSegmented(r) ==
    /\ IsRecord(r.payload)
    /\ FirstMissing(Loaded(r.payload)) = None
    /\ detect_payload_type(Loaded(r.payload).text) # "image-text"

\* What C34 asks of a non-segmented submission r that ended with outcome o
DecodeErrorFor(r, o) ==
    LET text == Loaded(r.payload).text
        decoded == b64decode(text)
    IN  /\ ~decoded.ok => o = InvalidEncoding
        /\ (decoded.ok /\ decoded.val = <<>>) => o = EmptyPayload
        /\ text \in UndecodableTexts => o = InvalidEncoding
        /\ text \in ZeroByteTexts => o = EmptyPayload

\* C34: non-segmented decode errors.  A non-segmented submission whose text
\* base64 decoding refuses returns 'Invalid Base64-encoded payload', one
\* whose text decodes to zero bytes returns 'Decoded payload is empty'; its
\* handling calls no publisher and leaves the segment store as it was.
C34_DecodeErrors ==
    /\ [](\A w \in Workers :
            (pc[w] = "done" /\ req[w] # None /\ NonSegmented(req[w])) =>
                /\ DecodeErrorFor(req[w], result[w])
                /\ result[w] \in {InvalidEncoding, EmptyPayload} => calls[w] = <<>>)
    /\ [][ \A w \in Workers :
             ( /\ pc[w] = "idle" /\ pc'[w] # "idle"
               /\ NonSegmented(req'[w])
               /\ LET decoded == b64decode(Loaded(req'[w].payload).text)
                  IN  ~decoded.ok \/ decoded.val = <<>> )
             => /\ pc'[w] = "done"
                /\ store' = store
                /\ published' = published
         ]_vars

\* C34 witness: over http, 'BAD' was answered with the invalid-encoding
\* error, and '!@#' has now ended with the empty-payload error; no publisher
\* was called.
C34_Witness ==
    /\ source[SeqWorker] # None
    /\ source[SeqWorker].outcome = InvalidEncoding
    /\ pc[SeqWorker] = "done"
    /\ NonSegmented(req[SeqWorker])
    /\ TextOf(SeqWorker) = <<"!", "@", "#">>
    /\ result[SeqWorker] = EmptyPayload
    /\ published = EmptyBag

NothingReceived == [is_complete |-> FALSE, received |-> 0, total |-> 0]

\* w takes a step from the storage call named by at
StorageStep(w, at) ==
    pc[w] \in at /\ <<pc[w], stack[w], result[w]>> # <<pc'[w], stack'[w], result'[w]>>

\* C35: storage-layer failures are reported, not raised.  While the database
\* fails, store_segment answers False and the submission returns 'Failed to
\* store message segment' at once, with no completeness check, no assembly
\* and no publisher call; is_session_complete answers (False, 0, 0);
\* get_segments answers no rows; delete_session removes nothing; none of
\* them changes the table, and none of them ends the invocation with an
\* exception of its own.
C35_StorageFailuresReported ==
    [][ \A w \in Workers :
          db = "down" =>
              /\ StorageStep(w, {"store_lookup", "store_insert"}) =>
                     /\ result'[w] = StoreFailed
                     /\ pc'[w] = IF stack[w] = <<>> THEN "done" ELSE "delete_session"
                     /\ store' = store /\ obs' = obs /\ calls' = calls
                     /\ stack' = stack /\ published' = published
              /\ StorageStep(w, {"complete_count", "complete_first"}) =>
                     /\ stack[w] = <<>> => obs'[w] = NothingReceived
                     /\ result'[w] = Outcome(SegmentCachedMsg(0, 0, CurSession(w)), None)
                     /\ store' = store /\ calls' = calls
              /\ StorageStep(w, {"assemble"}) =>
                     /\ store' = store /\ calls' = calls /\ stack' = stack
              /\ StorageStep(w, {"delete_session"}) =>
                     /\ store' = store
                     /\ ~IsRaised(result'[w])
      ]_vars

\* C35 witness: the database was down when the first segment of session 50
\* came in; nothing is stored, the submission ended with 'Failed to store
\* message segment', and no completeness check or publisher call was made.
C35_Witness ==
    \E w \in Workers :
        /\ db = "down"
        /\ pc[w] = "done"
        /\ result[w] = StoreFailed
        /\ store = <<>>
        /\ obs[w] = None
        /\ calls[w] = <<>>

CrashGroups == { Group(n, SenderX) : n \in {50, 42, 43} }

\* C36: resumption after interruption.  With every message handed in once
\* and only an interrupted one handed in again, the content of a session is
\* published once overall; and when the submission that found the session
\* complete has returned, retried or not, the session was published exactly
\* once and none of its segments is stored.
C36_ResumptionAfterInterruption ==
    /\ \A g \in CrashGroups : PublishedVia(g) <= 1
    /\ \A w \in Workers :
           (pc[w] = "done" /\ obs[w] # None /\ obs[w].is_complete
                /\ ~IsRaised(result[w])) =>
               \E g \in CrashGroups :
                   /\ parse_image_text_payload(TextOf(w)).metadata.session_id
                          = g.session_id
                   /\ PublishedVia(g) = 1
                   /\ CountSegments(store, g.session_id, g.sender_id) = 0

\* C37: a completing submission deletes its session whatever the re-entry
\* returned.  When the re-entered invocation has returned an outcome, the
\* session of the waiting frame is deleted before that frame returns, an
\* error of the re-entry is returned unchanged as the frame's error, and a
\* success as its message.
C37_DeleteWhateverReentryReturns ==
    [][ \A w \in Workers :
          (pc[w] = "delete_session" /\ stack'[w] # stack[w] /\ ~IsRaised(result[w])) =>
              LET frame == stack[w][Len(stack[w])] IN
              /\ CountSegments(store', frame.session_id, frame.sender_id) = 0
              /\ result[w].error # None => result'[w] = Outcome(None, result[w].error)
              /\ result[w].error = None => result'[w] = result[w]
      ]_vars

\* Every segment handed in for the group so far declares one total
Uniform(segs) ==
    /\ segs # {}
    /\ \A a, b \in segs : a.metadata.total_segments = b.metadata.total_segments

\* C38: when every segment submitted for a (session_id, sender_id) declares
\* the same total N, the stored segment numbers of the group are distinct
\* and lie in 0..N-1, the stored count never exceeds N, the session is
\* reported complete exactly when the stored numbers are 0..N-1, and a
\* submission that goes on to assemble finds exactly these numbers stored.
C38_UniformTotalNoGap ==
    \A g \in GroupsIn(store) :
        LET segs == DeliveredSegments(g) IN
        Uniform(segs) =>
            LET n == DeclaredTotal(segs)
                rows == OwnRows(store, g)
                numbers == SegmentNumbers(rows)
            IN  /\ \A i, j \in 1..Len(rows) :
                       rows[i].segment_number = rows[j].segment_number => i = j
                /\ numbers \subseteq 0..(n - 1)
                /\ Len(rows) <= n
                /\ SessionComplete(store, g.session_id, g.sender_id).is_complete
                       <=> numbers = 0..(n - 1)
                /\ \A w \in Workers :
                       ( /\ pc[w] = "assemble" /\ stack[w] = <<>>
                         /\ Group(CurSession(w), CurSender(w)) = g )
                       => numbers = 0..(n - 1)

=====
